---- MODULE Spec2Model ----
(***************************************************************************)
(* Oikonomos backend: the ledger store (accounts, transactions,            *)
(* amortization schedules and postings, balance snapshots) and the         *)
(* operations of app/services/finance.py on it.                            *)
(*                                                                         *)
(* Rows keep the column names of SCHEMA_SQL.  Row ids (uuid4 in the code)  *)
(* are the 1-based positions of the rows in their tables; 0 is SQL NULL.   *)
(* Columns without logic (purpose, payee, category, note, timestamps) are  *)
(* left out; requests always carry payeeId = categoryId = None.            *)
(***************************************************************************)
EXTENDS Integers, Sequences, FiniteSets, TLC

VARIABLES
    accounts,                \* table accounts
    transactions,            \* table transactions
    amortization_schedules,  \* table amortization_schedules
    amortization_postings,   \* table amortization_postings
    balance_snapshots,       \* table balance_snapshots
    initial_balance,         \* history: initialBalanceCents each account was created with
    last,                    \* the response of the request served last
    conns,                   \* per request slot: the connection of a request in flight
    shared,                  \* request slots holding SQLite's SHARED lock
    reserved,                \* request slot holding SQLite's RESERVED lock, 0 if none
    calc,                    \* the allocation run of DepSpec
    user_refresh_tokens,     \* table user_refresh_tokens
    clock                    \* the time of day, in steps of the token lifetimes

store_vars == <<accounts, transactions, amortization_schedules,
                amortization_postings, balance_snapshots>>
auth_vars == <<user_refresh_tokens, clock>>
vars == <<accounts, transactions, amortization_schedules, amortization_postings,
          balance_snapshots, initial_balance, last, conns, shared, reserved, calc,
          user_refresh_tokens, clock>>

----------------------------------------------------------------------------
(* Bounds of the model *)

MaxAccounts == 2
MaxTransactions == 2
MaxSchedules == 1
MaxSnapshots == 1
MaxPlainTransactions == 1
MaxProcs == 2
MaxCents == 12
MaxPeriods == 4

NULL == 0
OK == "ok"

----------------------------------------------------------------------------
(* Generic helpers *)

Abs(x) == IF x < 0 THEN -x ELSE x

----------------------------------------------------------------------------
(* app/db.py, app/models.py: period keys and dates *)

\* A period key is the request's periodYm string, kept as the list of its
\* "-"-separated parts (what str.split("-") returns), each part a list of
\* characters: 0..9 are the digits, NonDigit any other character.
NonDigit == 10

RECURSIVE IntOf(_)
IntOf(part) ==
    IF part = <<>> THEN 0 ELSE IntOf(SubSeq(part, 1, Len(part) - 1)) * 10 + part[Len(part)]

IsInt(part) == part # <<>> /\ \A i \in 1..Len(part) : part[i] \in 0..9

DaysIn(year, month) ==
    IF month = 2 THEN (IF year % 4 = 0 /\ (year % 100 # 0 \/ year % 400 = 0) THEN 29 ELSE 28)
    ELSE IF month \in {4, 6, 9, 11} THEN 30 ELSE 31

IsDate(year, month, day) ==
    /\ year \in 1..9999
    /\ month \in 1..12
    /\ day \in 1..DaysIn(year, month)

\* parse_period: ok = FALSE is ApiError invalid_input; start is date(year, month, 1).
parse_period(period_ym) ==
    IF Len(period_ym) # 2 THEN [ok |-> FALSE, year |-> 0, month |-> 0]
    ELSE IF ~(IsInt(period_ym[1]) /\ IsInt(period_ym[2])) THEN [ok |-> FALSE, year |-> 0, month |-> 0]
    ELSE LET year == IntOf(period_ym[1])
             month == IntOf(period_ym[2])
         IN IF IsDate(year, month, 1) THEN [ok |-> TRUE, year |-> year, month |-> month]
            ELSE [ok |-> FALSE, year |-> 0, month |-> 0]

\* The digits of n, zero-padded to width: "%04d" and "%02d" of date.isoformat().
RECURSIVE Digits(_, _)
Digits(n, width) ==
    IF width = 0 THEN <<>> ELSE Append(Digits(n \div 10, width - 1), n % 10)

\* The period key "YYYY-MM" of a month.
MonthKey(year, month) == <<Digits(year, 4), Digits(month, 2)>>

\* A stored timestamp "YYYY-MM-" followed by rest, the day and the time of day.
Timestamp(year, month, rest) == <<Digits(year, 4), Digits(month, 2), rest>>

\* substr(occurred_at, 1, 7).
Substr7(occurred_at) == <<occurred_at[1], occurred_at[2]>>

\* parse_date_ymd on a start date <<year, month, day>>.
parse_date_ymd(value) == IsDate(value[1], value[2], value[3])

months_between(start_year, start_month, target_year, target_month) ==
    (target_year - start_year) * 12 + (target_month - start_month)

----------------------------------------------------------------------------
(* _calculate_depreciation_amount *)

RECURSIVE Allocated(_, _, _, _)
Allocated(depreciable_cents, total_periods, weight_sum, n) ==
    \* the loop of lines 157-160: the sum over i in range(n)
    IF n <= 0 THEN 0
    ELSE Allocated(depreciable_cents, total_periods, weight_sum, n - 1)
         + (depreciable_cents * (total_periods - (n - 1))) \div weight_sum

LinearAmountNoRemainder(depreciable_cents, total_periods, period_index) ==
    depreciable_cents \div total_periods

LinearAmount(depreciable_cents, total_periods, period_index) ==
    LET base == depreciable_cents \div total_periods
    IN IF period_index = total_periods - 1
       THEN base + (depreciable_cents % total_periods)
       ELSE base

\* The final period given its weighted share like the periods before it.
AcceleratedAmountShareLast(depreciable_cents, total_periods, period_index) ==
    (depreciable_cents * (total_periods - period_index))
        \div ((total_periods * (total_periods + 1)) \div 2)

AcceleratedAmount(depreciable_cents, total_periods, period_index) ==
    LET weight_sum == (total_periods * (total_periods + 1)) \div 2
    IN IF period_index = total_periods - 1
       THEN depreciable_cents - Allocated(depreciable_cents, total_periods, weight_sum, period_index)
       ELSE (depreciable_cents * (total_periods - period_index)) \div weight_sum

calculate_depreciation_amount(strategy, depreciable_cents, total_periods, period_index) ==
    IF \/ depreciable_cents <= 0
       \/ total_periods <= 0
       \/ period_index < 0
       \/ period_index >= total_periods
    THEN 0
    ELSE IF strategy = "Linear"
         THEN LinearAmount(depreciable_cents, total_periods, period_index)
         ELSE AcceleratedAmount(depreciable_cents, total_periods, period_index)

----------------------------------------------------------------------------
(* The store as one connection sees it, and statements inside a transaction *)

DB == [accounts |-> accounts,
       transactions |-> transactions,
       amortization_schedules |-> amortization_schedules,
       amortization_postings |-> amortization_postings,
       balance_snapshots |-> balance_snapshots]

EmptyDB == [accounts |-> <<>>,
            transactions |-> <<>>,
            amortization_schedules |-> <<>>,
            amortization_postings |-> <<>>,
            balance_snapshots |-> <<>>]

\* A transaction in progress: the connection's view of the store and the
\* exception raised so far (OK if none).  A statement after an exception
\* is not executed.
Begin(db) == [db |-> db, err |-> OK]

Raise(st, code) == [st EXCEPT !.err = code]

\* db.transaction, with the rollback missing.
transactionNoRollback(db, st) == st.db

\* db.transaction: commit when the body ends normally, rollback when it raises.
transaction(db, st) == IF st.err = OK THEN st.db ELSE db

AccountExists(db, account_id) == account_id \in 1..Len(db.accounts)

\* REFERENCES accounts(id) on a nullable column, with PRAGMA foreign_keys = ON.
AccountRefOk(db, account_id) == account_id = NULL \/ AccountExists(db, account_id)

\* CHECK(type != 'Liability' OR balance_cents <= 0) of table accounts.
AccountsCheck(row) == row.type # "Liability" \/ row.balance_cents <= 0

\* INSERT INTO accounts.
InsertAccount(st, row) ==
    IF st.err # OK THEN st
    ELSE IF ~(row.type \in {"Asset", "Liability"} /\ AccountsCheck(row))
         THEN Raise(st, "db_integrity_error")
         ELSE [st EXCEPT !.db.accounts = Append(@, row)]

\* The row written over the newest row of transactions instead of after it.
InsertTransactionOverwrite(st, row) ==
    IF st.err # OK THEN st
    ELSE IF ~(/\ row.amount_cents > 0
              /\ row.accrual_type \in {"Flow", "Depreciation", "Adjustment"}
              /\ AccountRefOk(st.db, row.from_account_id)
              /\ AccountRefOk(st.db, row.to_account_id))
         THEN Raise(st, "db_integrity_error")
         ELSE IF st.db.transactions = <<>>
              THEN [st EXCEPT !.db.transactions = Append(@, row)]
              ELSE [st EXCEPT !.db.transactions[Len(st.db.transactions)] = row]

\* INSERT INTO transactions: the CHECKs and the foreign keys of the table.
InsertTransaction(st, row) ==
    IF st.err # OK THEN st
    ELSE IF ~(/\ row.amount_cents > 0
              /\ row.accrual_type \in {"Flow", "Depreciation", "Adjustment"}
              /\ AccountRefOk(st.db, row.from_account_id)
              /\ AccountRefOk(st.db, row.to_account_id))
         THEN Raise(st, "db_integrity_error")
         ELSE [st EXCEPT !.db.transactions = Append(@, row)]

\* INSERT INTO amortization_schedules.
InsertSchedule(st, row) ==
    IF st.err # OK THEN st
    ELSE IF ~(/\ row.total_periods > 0
              /\ row.residual_cents >= 0
              /\ row.strategy \in {"Linear", "Accelerated"}
              /\ AccountExists(st.db, row.asset_account_id)
              /\ row.source_transaction_id \in 1..Len(st.db.transactions))
         THEN Raise(st, "db_integrity_error")
         ELSE [st EXCEPT !.db.amortization_schedules = Append(@, row)]

\* A posting (schedule_id, period_ym) is in no row.
HasPostingNever(db, schedule_id, period_ym) == FALSE

\* A row of amortization_postings with this (schedule_id, period_ym): the
\* lookup of ensure_depreciation_for_period and of the UNIQUE index.
HasPosting(db, schedule_id, period_ym) ==
    \E i \in 1..Len(db.amortization_postings) :
        /\ db.amortization_postings[i].schedule_id = schedule_id
        /\ db.amortization_postings[i].period_ym = period_ym

\* INSERT INTO amortization_postings.
InsertPosting(st, row) ==
    IF st.err # OK THEN st
    ELSE IF ~(/\ row.amount_cents > 0
              /\ row.schedule_id \in 1..Len(st.db.amortization_schedules)
              /\ row.transaction_id \in 1..Len(st.db.transactions)
              /\ ~HasPosting(st.db, row.schedule_id, row.period_ym))
         THEN Raise(st, "db_integrity_error")
         ELSE [st EXCEPT !.db.amortization_postings = Append(@, row)]

\* INSERT INTO balance_snapshots, left out for a delta of zero.
InsertSnapshotUnlessZero(st, row) ==
    IF st.err # OK \/ row.delta_cents = 0 THEN st
    ELSE [st EXCEPT !.db.balance_snapshots = Append(@, row)]

\* INSERT INTO balance_snapshots.
InsertSnapshot(st, row) ==
    IF st.err # OK THEN st
    ELSE IF ~(/\ AccountExists(st.db, row.account_id)
              /\ row.adjustment_tx_id \in 0..Len(st.db.transactions))
         THEN Raise(st, "db_integrity_error")
         ELSE [st EXCEPT !.db.balance_snapshots = Append(@, row)]

\* _apply_balance_delta with neither the CHECK nor the re-read.
apply_balance_delta_unchecked(st, account_id, delta) ==
    IF st.err # OK THEN st
    ELSE IF ~AccountExists(st.db, account_id) THEN Raise(st, "not_found")
    ELSE [st EXCEPT !.db.accounts[account_id].balance_cents = @ + delta]

\* _apply_balance_delta with the delta subtracted.
apply_balance_delta_negated(st, account_id, delta) ==
    IF st.err # OK THEN st
    ELSE IF ~AccountExists(st.db, account_id) THEN Raise(st, "not_found")
    ELSE LET row == [st.db.accounts[account_id] EXCEPT !.balance_cents = @ - delta]
         IN IF ~AccountsCheck(row) THEN Raise(st, "db_integrity_error")
            ELSE [st EXCEPT !.db.accounts[account_id] = row]

\* _apply_balance_delta.  The UPDATE hits no row for an absent (or NULL)
\* account; it raises sqlite3.IntegrityError when the new row fails the
\* table's CHECK; the re-read sees the row the UPDATE wrote.
apply_balance_delta(st, account_id, delta) ==
    IF st.err # OK THEN st
    ELSE IF ~AccountExists(st.db, account_id) THEN Raise(st, "not_found")
    ELSE LET row == [st.db.accounts[account_id] EXCEPT !.balance_cents = @ + delta]
         IN IF ~AccountsCheck(row) THEN Raise(st, "db_integrity_error")
            ELSE LET st2 == [st EXCEPT !.db.accounts[account_id] = row]
                 IN IF row.type = "Liability" /\ row.balance_cents > 0
                    THEN Raise(st2, "invalid_input")
                    ELSE st2

----------------------------------------------------------------------------
(* Request validation helpers *)

\* str.strip() on the account names the requests carry.
Strip(name) == IF name = " " THEN "" ELSE name

\* normalize_timestamp: None is now(); a time without offset or that does
\* not parse raises invalid_input.  TRUE when it returns.
normalize_timestamp(value) == value \in {"None", "2026-02-22T12:00:00Z"}

\* now_utc_rfc3339() while the requests are served.
Now == Timestamp(2026, 2, "22T12:00:00Z")

\* The timestamp normalize_timestamp returns.
OccurredAt(value) == IF value = "None" THEN Now ELSE Timestamp(2026, 2, "22T12:00:00Z")

\* What a handler hands back: the store it leaves, the error code (OK when it
\* returns normally) and the fields of the response DTO the properties read.
Resp(db, code, ref, delta, adj) ==
    [db |-> db, code |-> code, ref |-> ref, delta |-> delta, adj |-> adj]

Fail(db, code) == Resp(db, code, NULL, 0, NULL)

----------------------------------------------------------------------------
(* ensure_depreciation_for_period *)

ActiveScheduleIds(db) ==
    \* the ids the SELECT ... WHERE s.status = 'Active' returns, in rowid order
    SelectSeq([i \in 1..Len(db.amortization_schedules) |-> i],
              LAMBDA i : db.amortization_schedules[i].status = "Active")

PeriodIndex(db, schedule_id, period) ==
    LET row == db.amortization_schedules[schedule_id]
    IN months_between(row.start_date[1], row.start_date[2], period.year, period.month)

\* The amount computed on the purchase amount, the residual not taken off.
ScheduleAmountGross(db, schedule_id, period_index) ==
    LET row == db.amortization_schedules[schedule_id]
        purchase_amount == db.transactions[row.source_transaction_id].amount_cents
    IN calculate_depreciation_amount(row.strategy, purchase_amount,
                                     row.total_periods, period_index)

ScheduleAmount(db, schedule_id, period_index) ==
    LET row == db.amortization_schedules[schedule_id]
        purchase_amount == db.transactions[row.source_transaction_id].amount_cents
    IN calculate_depreciation_amount(row.strategy, purchase_amount - row.residual_cents,
                                     row.total_periods, period_index)

\* The UPDATE ... SET status = 'Completed' left out.
CompleteScheduleNever(st, schedule_id, period_index) == st

\* The final period leaves the schedule Cancelled.
CompleteScheduleCancels(st, schedule_id, period_index) ==
    IF st.err # OK THEN st
    ELSE IF period_index = st.db.amortization_schedules[schedule_id].total_periods - 1
         THEN [st EXCEPT !.db.amortization_schedules[schedule_id].status = "Cancelled"]
         ELSE st

\* Lines 225-229: the final period completes the schedule.
CompleteSchedule(st, schedule_id, period_index) ==
    IF st.err # OK THEN st
    ELSE IF period_index = st.db.amortization_schedules[schedule_id].total_periods - 1
         THEN [st EXCEPT !.db.amortization_schedules[schedule_id].status = "Completed"]
         ELSE st

\* The body of the loop over the selected schedules (lines 178-229).
PostSchedule(st, schedule_id, period_ym, period) ==
    IF st.err # OK THEN st
    ELSE LET row == st.db.amortization_schedules[schedule_id]
             period_index == PeriodIndex(st.db, schedule_id, period)
             amount == ScheduleAmount(st.db, schedule_id, period_index)
         IN IF period_index < 0 \/ period_index >= row.total_periods THEN st
            ELSE IF HasPosting(st.db, schedule_id, period_ym) THEN st
            ELSE IF amount <= 0 THEN st
            ELSE LET st1 == InsertTransaction(st,
                                [amount_cents |-> amount,
                                 from_account_id |-> NULL,
                                 to_account_id |-> NULL,
                                 accrual_type |-> "Depreciation",
                                 is_asset_purchase |-> FALSE,
                                 occurred_at |-> Timestamp(period.year, period.month,
                                                          "01T00:00:00Z")])
                     st2 == InsertPosting(st1,
                                [schedule_id |-> schedule_id,
                                 period_ym |-> period_ym,
                                 amount_cents |-> amount,
                                 transaction_id |-> Len(st1.db.transactions)])
                 IN CompleteSchedule(st2, schedule_id, period_index)

RECURSIVE EnsureLoop(_, _, _, _)
EnsureLoop(st, schedules, period_ym, period) ==
    IF schedules = <<>> THEN st
    ELSE EnsureLoop(PostSchedule(st, Head(schedules), period_ym, period),
                    Tail(schedules), period_ym, period)

ensure_depreciation_for_period(st, period_ym) ==
    LET period == parse_period(period_ym)
    IN IF st.err # OK THEN st
       ELSE IF ~period.ok THEN Raise(st, "invalid_input")
       ELSE EnsureLoop(st, ActiveScheduleIds(st.db), period_ym, period)

----------------------------------------------------------------------------
(* The request handlers of app/services/finance.py *)

create_account(db, input) ==
    IF Strip(input.name) = "" THEN Fail(db, "invalid_input")
    ELSE IF input.accountType = "Liability" /\ input.initialBalanceCents > 0
         THEN Fail(db, "invalid_input")
    ELSE LET st == InsertAccount(Begin(db),
                       [name |-> Strip(input.name),
                        type |-> input.accountType,
                        balance_cents |-> input.initialBalanceCents])
             out == transaction(db, st)
         IN IF st.err # OK THEN Fail(out, st.err)
            ELSE Resp(out, OK, Len(out.accounts), 0, NULL)

\* create_transaction without the checks of lines 279-288.
create_transaction_unvalidated(db, input) ==
    LET accrual_type == IF input.accrualType = "None" THEN "Flow" ELSE input.accrualType
    IN IF ~normalize_timestamp(input.occurredAt) THEN Fail(db, "invalid_input")
       ELSE LET st1 == InsertTransaction(Begin(db),
                           [amount_cents |-> input.amountCents,
                            from_account_id |-> input.fromAccountId,
                            to_account_id |-> input.toAccountId,
                            accrual_type |-> accrual_type,
                            is_asset_purchase |-> input.isAssetPurchase,
                            occurred_at |-> OccurredAt(input.occurredAt)])
                st2 == IF accrual_type # "Depreciation" /\ input.fromAccountId # NULL
                       THEN apply_balance_delta(st1, input.fromAccountId, -input.amountCents)
                       ELSE st1
                st3 == IF accrual_type # "Depreciation" /\ input.toAccountId # NULL
                       THEN apply_balance_delta(st2, input.toAccountId, input.amountCents)
                       ELSE st2
                out == transaction(db, st3)
            IN IF st3.err # OK THEN Fail(out, st3.err)
               ELSE Resp(out, OK, Len(out.transactions), 0, NULL)

\* create_transaction with the two balance updates of lines 317-321 in the
\* other order: the credit first.
create_transaction_credit_first(db, input) ==
    LET accrual_type == IF input.accrualType = "None" THEN "Flow" ELSE input.accrualType
    IN IF input.amountCents <= 0 THEN Fail(db, "invalid_input")
       ELSE IF /\ accrual_type # "Depreciation"
               /\ input.fromAccountId = NULL
               /\ input.toAccountId = NULL
            THEN Fail(db, "invalid_input")
       ELSE IF ~normalize_timestamp(input.occurredAt) THEN Fail(db, "invalid_input")
       ELSE LET st1 == InsertTransaction(Begin(db),
                           [amount_cents |-> input.amountCents,
                            from_account_id |-> input.fromAccountId,
                            to_account_id |-> input.toAccountId,
                            accrual_type |-> accrual_type,
                            is_asset_purchase |-> input.isAssetPurchase,
                            occurred_at |-> OccurredAt(input.occurredAt)])
                st2 == IF accrual_type # "Depreciation" /\ input.toAccountId # NULL
                       THEN apply_balance_delta(st1, input.toAccountId, input.amountCents)
                       ELSE st1
                st3 == IF accrual_type # "Depreciation" /\ input.fromAccountId # NULL
                       THEN apply_balance_delta(st2, input.fromAccountId, -input.amountCents)
                       ELSE st2
                out == transaction(db, st3)
            IN IF st3.err # OK THEN Fail(out, st3.err)
               ELSE Resp(out, OK, Len(out.transactions), 0, NULL)

create_transaction(db, input) ==
    LET accrual_type == IF input.accrualType = "None" THEN "Flow" ELSE input.accrualType
    IN IF input.amountCents <= 0 THEN Fail(db, "invalid_input")
       ELSE IF /\ accrual_type # "Depreciation"
               /\ input.fromAccountId = NULL
               /\ input.toAccountId = NULL
            THEN Fail(db, "invalid_input")
       ELSE IF ~normalize_timestamp(input.occurredAt) THEN Fail(db, "invalid_input")
       ELSE LET st1 == InsertTransaction(Begin(db),
                           [amount_cents |-> input.amountCents,
                            from_account_id |-> input.fromAccountId,
                            to_account_id |-> input.toAccountId,
                            accrual_type |-> accrual_type,
                            is_asset_purchase |-> input.isAssetPurchase,
                            occurred_at |-> OccurredAt(input.occurredAt)])
                st2 == IF accrual_type # "Depreciation" /\ input.fromAccountId # NULL
                       THEN apply_balance_delta(st1, input.fromAccountId, -input.amountCents)
                       ELSE st1
                st3 == IF accrual_type # "Depreciation" /\ input.toAccountId # NULL
                       THEN apply_balance_delta(st2, input.toAccountId, input.amountCents)
                       ELSE st2
                out == transaction(db, st3)
            IN IF st3.err # OK THEN Fail(out, st3.err)
               ELSE Resp(out, OK, Len(out.transactions), 0, NULL)

\* create_asset_purchase without the checks of lines 353-360.
create_asset_purchase_unvalidated(db, input) ==
    IF ~normalize_timestamp(input.occurredAt) THEN Fail(db, "invalid_input")
    ELSE LET st1 == InsertTransaction(Begin(db),
                        [amount_cents |-> input.amountCents,
                         from_account_id |-> input.fromAccountId,
                         to_account_id |-> input.assetAccountId,
                         accrual_type |-> "Flow",
                         is_asset_purchase |-> TRUE,
                         occurred_at |-> OccurredAt(input.occurredAt)])
             st2 == apply_balance_delta(st1, input.fromAccountId, -input.amountCents)
             st3 == apply_balance_delta(st2, input.assetAccountId, input.amountCents)
             st4 == InsertSchedule(st3,
                        [asset_account_id |-> input.assetAccountId,
                         strategy |-> input.strategy,
                         total_periods |-> input.totalPeriods,
                         residual_cents |-> input.residualCents,
                         start_date |-> input.startDate,
                         source_transaction_id |-> Len(st3.db.transactions),
                         status |-> "Active"])
             out == transaction(db, st4)
         IN IF st4.err # OK THEN Fail(out, st4.err)
            ELSE Resp(out, OK, Len(out.transactions), 0, Len(out.amortization_schedules))

create_asset_purchase(db, input) ==
    IF input.amountCents <= 0 THEN Fail(db, "invalid_input")
    ELSE IF input.totalPeriods <= 0 THEN Fail(db, "invalid_input")
    ELSE IF input.residualCents < 0 \/ input.residualCents > input.amountCents
         THEN Fail(db, "invalid_input")
    ELSE IF ~parse_date_ymd(input.startDate) THEN Fail(db, "invalid_input")
    ELSE IF ~normalize_timestamp(input.occurredAt) THEN Fail(db, "invalid_input")
    ELSE LET st1 == InsertTransaction(Begin(db),
                        [amount_cents |-> input.amountCents,
                         from_account_id |-> input.fromAccountId,
                         to_account_id |-> input.assetAccountId,
                         accrual_type |-> "Flow",
                         is_asset_purchase |-> TRUE,
                         occurred_at |-> OccurredAt(input.occurredAt)])
             st2 == apply_balance_delta(st1, input.fromAccountId, -input.amountCents)
             st3 == apply_balance_delta(st2, input.assetAccountId, input.amountCents)
             st4 == InsertSchedule(st3,
                        [asset_account_id |-> input.assetAccountId,
                         strategy |-> input.strategy,
                         total_periods |-> input.totalPeriods,
                         residual_cents |-> input.residualCents,
                         start_date |-> input.startDate,
                         source_transaction_id |-> Len(st3.db.transactions),
                         status |-> "Active"])
             out == transaction(db, st4)
         IN IF st4.err # OK THEN Fail(out, st4.err)
            ELSE Resp(out, OK, Len(out.transactions), 0, Len(out.amortization_schedules))

\* The transaction of reconcile_account (lines 428-468), for the balance
\* the handler read before it.
ReconcileWrite(db, input, system_balance) ==
    LET delta == input.actualBalanceCents - system_balance
        st0 == Begin(db)
        st1 == IF delta = 0 THEN st0
               ELSE IF ~normalize_timestamp(input.occurredAt) THEN Raise(st0, "invalid_input")
               ELSE apply_balance_delta(
                        InsertTransaction(st0,
                            [amount_cents |-> Abs(delta),
                             from_account_id |-> IF delta < 0 THEN input.accountId ELSE NULL,
                             to_account_id |-> IF delta > 0 THEN input.accountId ELSE NULL,
                             accrual_type |-> "Adjustment",
                             is_asset_purchase |-> FALSE,
                             occurred_at |-> OccurredAt(input.occurredAt)]),
                        input.accountId, delta)
        adjustment_id == IF delta = 0 THEN NULL ELSE Len(st1.db.transactions)
        st2 == InsertSnapshot(st1,
                   [account_id |-> input.accountId,
                    actual_balance_cents |-> input.actualBalanceCents,
                    system_balance_cents |-> system_balance,
                    delta_cents |-> delta,
                    adjustment_tx_id |-> adjustment_id])
        out == transaction(db, st2)
    IN IF st2.err # OK THEN Fail(out, st2.err)
       ELSE Resp(out, OK, input.accountId, delta, adjustment_id)

\* reconcile_account without the check of lines 421-422: an absent row read as
\* a balance of zero.
reconcile_account_unchecked(db, input) ==
    ReconcileWrite(db, input,
                   IF AccountExists(db, input.accountId)
                   THEN db.accounts[input.accountId].balance_cents ELSE 0)

reconcile_account(db, input) ==
    IF ~AccountExists(db, input.accountId) THEN Fail(db, "not_found")
    ELSE ReconcileWrite(db, input, db.accounts[input.accountId].balance_cents)

\* The schedules the scan of ensure_depreciation_for_period passes over
\* because (schedule, period_ym) is posted already (line 194).
AlreadyPosted(db, period_ym) ==
    LET period == parse_period(period_ym)
    IN {schedule_id \in 1..Len(db.amortization_schedules) :
           /\ db.amortization_schedules[schedule_id].status = "Active"
           /\ PeriodIndex(db, schedule_id, period) >= 0
           /\ PeriodIndex(db, schedule_id, period)
                  < db.amortization_schedules[schedule_id].total_periods
           /\ HasPosting(db, schedule_id, period_ym)}

\* SUM(t.amount_cents) over the first n rows of transactions the report's
\* WHERE clause selects and that carry the label (lines 506-519).  No row has
\* a category, so the labels are 'Depreciation' and 'Uncategorized'.
RECURSIVE ReportTotal(_, _, _, _)
ReportTotal(db, period_ym, label, n) ==
    IF n = 0 THEN 0
    ELSE LET t == db.transactions[n]
             selected ==
                 /\ Substr7(t.occurred_at) = period_ym
                 /\ \/ t.accrual_type = "Flow" /\ ~t.is_asset_purchase
                    \/ t.accrual_type = "Depreciation"
             row_label == IF t.accrual_type = "Depreciation" THEN "Depreciation"
                          ELSE "Uncategorized"
         IN ReportTotal(db, period_ym, label, n - 1)
                + (IF selected /\ row_label = label THEN t.amount_cents ELSE 0)

\* The ReportDto of get_utility_report: the totals of the two labels (0 for a
\* label without rows) and their sum.
UtilityReportDto(db, period_ym) ==
    LET depreciation == ReportTotal(db, period_ym, "Depreciation", Len(db.transactions))
        uncategorized == ReportTotal(db, period_ym, "Uncategorized", Len(db.transactions))
    IN [periodYm |-> period_ym,
        Depreciation |-> depreciation,
        Uncategorized |-> uncategorized,
        totalExpenseCents |-> depreciation + uncategorized]

\* The response records, for the properties: ref, the number of postings the
\* call wrote, and adj, the number of schedules it found posted already; report
\* is the ReportDto.
get_utility_report(db, period_ym) ==
    IF ~parse_period(period_ym).ok THEN Fail(db, "invalid_input")
    ELSE LET st == ensure_depreciation_for_period(Begin(db), period_ym)
             out == transaction(db, st)
         IN IF st.err # OK THEN Fail(out, st.err)
            ELSE Resp(out, OK,
                      Len(out.amortization_postings) - Len(db.amortization_postings),
                      0, Cardinality(AlreadyPosted(db, period_ym)))
                     @@ [report |-> UtilityReportDto(out, period_ym)]

----------------------------------------------------------------------------
(* The requests the model issues *)

NoKey == <<>>

\* "2026-01", "2026-02", "2026-1", "2025-12", "2026-13", "2026"
PeriodKeys ==
    {<<<<2, 0, 2, 6>>, <<0, 1>>>>,
     <<<<2, 0, 2, 6>>, <<0, 2>>>>,
     <<<<2, 0, 2, 6>>, <<1>>>>,
     <<<<2, 0, 2, 5>>, <<1, 2>>>>,
     <<<<2, 0, 2, 6>>, <<1, 3>>>>,
     <<<<2, 0, 2, 6>>>>}

\* Each request set holds the well-formed requests and, for every validation
\* of the handler, requests that fail it.

CreateAccountInputs ==
    {[name |-> "Cash", accountType |-> "Asset", initialBalanceCents |-> 2],
     [name |-> "Cash", accountType |-> "Liability", initialBalanceCents |-> -2],
     [name |-> "Cash", accountType |-> "Liability", initialBalanceCents |-> 2],
     [name |-> " ", accountType |-> "Asset", initialBalanceCents |-> 2],
     [name |-> "", accountType |-> "Liability", initialBalanceCents |-> -2]}

TransactionInput(amount, from, to, accrual, flag, occurred) ==
    [amountCents |-> amount, fromAccountId |-> from, toAccountId |-> to,
     accrualType |-> accrual, isAssetPurchase |-> flag, occurredAt |-> occurred]

CreateTransactionInputs ==
    \* transfers, deposits and withdrawals of 2 between any accounts
    {TransactionInput(2, from, to, "None", FALSE, "None") :
        from \in 0..MaxAccounts, to \in 0..MaxAccounts}
    \* one-sided requests with an accrual type or the asset-purchase flag
    \cup {TransactionInput(2, from, NULL, accrual, FALSE, "None") :
        from \in 0..MaxAccounts, accrual \in {"Adjustment", "Depreciation"}}
    \cup {TransactionInput(2, from, NULL, "None", TRUE, "None") : from \in 1..MaxAccounts}
    \* amounts that are not positive, a time without offset
    \cup {TransactionInput(amount, 1, 2, accrual, FALSE, "None") :
        amount \in {0, -1}, accrual \in {"None", "Depreciation"}}
    \cup {TransactionInput(2, 1, 2, "None", FALSE, "2026-02-22T12:00:00")}

PurchaseInput(from, asset, amount, shape, start, occurred) ==
    [fromAccountId |-> from, assetAccountId |-> asset, amountCents |-> amount,
     strategy |-> shape[1], totalPeriods |-> shape[2], residualCents |-> shape[3],
     startDate |-> start, occurredAt |-> occurred]

\* strategy, totalPeriods, residualCents of the well-formed asset purchases (of 3)
ScheduleShapes ==
    {<<"Linear", 1, 0>>, <<"Linear", 2, 0>>, <<"Accelerated", 2, 0>>, <<"Linear", 1, 3>>}

CreateAssetPurchaseInputs ==
    {PurchaseInput(from, asset, 3, shape, <<2026, 1, 15>>, "None") :
        from \in 1..MaxAccounts, asset \in 1..MaxAccounts, shape \in ScheduleShapes}
    \* each validation failing in turn
    \cup {PurchaseInput(1, 2, amount, <<"Linear", 1, 0>>, <<2026, 1, 15>>, "None") :
        amount \in {0, -1}}
    \cup {PurchaseInput(1, 2, 3, shape, <<2026, 1, 15>>, "None") :
        shape \in {<<"Linear", 0, 0>>, <<"Accelerated", 1, -1>>, <<"Linear", 1, 4>>}}
    \cup {PurchaseInput(1, 2, 3, <<"Linear", 1, 0>>, <<2026, 2, 30>>, "None"),
          PurchaseInput(1, 2, 3, <<"Linear", 1, 0>>, <<2026, 1, 15>>, "2026-02-22T12:00:00")}

ReconcileInputs ==
    {[accountId |-> account, actualBalanceCents |-> actual, occurredAt |-> "None"] :
        account \in 1..MaxAccounts, actual \in {-2, 1}}
    \cup {[accountId |-> 1, actualBalanceCents |-> actual, occurredAt |-> "2026-02-22T12:00:00"] :
        actual \in {-2, 2}}

----------------------------------------------------------------------------
(* The service, one request at a time *)

Procs == 1..MaxProcs

NoInput == [accountId |-> NULL, actualBalanceCents |-> 0, occurredAt |-> "None"]

\* A connection between requests.  period_ym and st serve a utilityReport
\* request, input and system_balance a reconcile request.
NoConn == [pc |-> "idle", period_ym |-> NoKey, st |-> Begin(EmptyDB), code |-> OK,
           input |-> NoInput, system_balance |-> 0]

NoCalc == [strategy |-> "Linear", depreciable_cents |-> 0, total_periods |-> 0,
           period_index |-> 0, allocated |-> 0]

IdleInit ==
    /\ conns = [p \in Procs |-> NoConn]
    /\ shared = {}
    /\ reserved = 0
    /\ calc = NoCalc
    /\ user_refresh_tokens = <<>>
    /\ clock = 1

Init ==
    /\ accounts = <<>>
    /\ transactions = <<>>
    /\ amortization_schedules = <<>>
    /\ amortization_postings = <<>>
    /\ balance_snapshots = <<>>
    /\ initial_balance = <<>>
    /\ last = [op |-> "initialize_database", code |-> OK, ref |-> NULL, delta |-> 0,
               adj |-> NULL]
    /\ IdleInit

WithinBounds(db) ==
    /\ Len(db.accounts) <= MaxAccounts
    /\ Len(db.transactions) <= MaxTransactions
    /\ Len(db.amortization_schedules) <= MaxSchedules
    /\ Len(db.balance_snapshots) <= MaxSnapshots

\* The store and the response after a request.
Served(op, r) ==
    /\ WithinBounds(r.db)
    /\ accounts' = r.db.accounts
    /\ transactions' = r.db.transactions
    /\ amortization_schedules' = r.db.amortization_schedules
    /\ amortization_postings' = r.db.amortization_postings
    /\ balance_snapshots' = r.db.balance_snapshots
    /\ last' = [op |-> op, code |-> r.code, ref |-> r.ref, delta |-> r.delta, adj |-> r.adj]

\* The rows of transactions that no schedule, posting or snapshot refers to:
\* the rows createTransaction wrote.
PlainTransactions(db) ==
    {i \in 1..Len(db.transactions) :
        /\ \A j \in 1..Len(db.amortization_schedules) :
               db.amortization_schedules[j].source_transaction_id # i
        /\ \A j \in 1..Len(db.amortization_postings) :
               db.amortization_postings[j].transaction_id # i
        /\ \A j \in 1..Len(db.balance_snapshots) :
               db.balance_snapshots[j].adjustment_tx_id # i}

CreateAccount ==
    \E input \in CreateAccountInputs :
        \E r \in {create_account(DB, input)} :
            /\ Served("createAccount", r)
            /\ initial_balance' = IF r.code = OK
                                  THEN Append(initial_balance, input.initialBalanceCents)
                                  ELSE initial_balance
            /\ UNCHANGED <<conns, shared, reserved, calc, auth_vars>>

CreateTransaction ==
    \E input \in CreateTransactionInputs :
        \E r \in {create_transaction(DB, input)} :
            /\ Cardinality(PlainTransactions(r.db)) <= MaxPlainTransactions
            /\ Served("createTransaction", r)
            /\ UNCHANGED <<initial_balance, conns, shared, reserved, calc, auth_vars>>

CreateAssetPurchase ==
    \E input \in CreateAssetPurchaseInputs :
        \E r \in {create_asset_purchase(DB, input)} :
            /\ Served("createAssetPurchase", r)
            /\ UNCHANGED <<initial_balance, conns, shared, reserved, calc, auth_vars>>

Reconcile ==
    \E input \in ReconcileInputs :
        \E r \in {reconcile_account(DB, input)} :
            /\ Served("reconcile", r)
            /\ UNCHANGED <<initial_balance, conns, shared, reserved, calc, auth_vars>>

UtilityReport ==
    \E period_ym \in PeriodKeys :
        \E r \in {get_utility_report(DB, period_ym)} :
            /\ Served("utilityReport", r)
            /\ UNCHANGED <<initial_balance, conns, shared, reserved, calc, auth_vars>>

Next ==
    \/ CreateAccount
    \/ CreateTransaction
    \/ CreateAssetPurchase
    \/ Reconcile
    \/ UtilityReport

Spec == Init /\ [][Next]_vars

----------------------------------------------------------------------------
(* _calculate_depreciation_amount, period after period *)

Strategies == {"Linear", "Accelerated"}

DepInit ==
    /\ accounts = <<>>
    /\ transactions = <<>>
    /\ amortization_schedules = <<>>
    /\ amortization_postings = <<>>
    /\ balance_snapshots = <<>>
    /\ initial_balance = <<>>
    /\ last = [op |-> "initialize_database", code |-> OK, ref |-> NULL, delta |-> 0,
               adj |-> NULL]
    /\ conns = [p \in Procs |-> NoConn]
    /\ shared = {}
    /\ reserved = 0
    /\ user_refresh_tokens = <<>>
    /\ clock = 1
    /\ calc \in [strategy : Strategies,
                 depreciable_cents : 1..MaxCents,
                 total_periods : 1..MaxPeriods,
                 period_index : {0},
                 allocated : {0}]

\* The amount of the next period is added to the running total.
Allocate ==
    /\ calc.period_index < calc.total_periods
    /\ calc' = [calc EXCEPT
                   !.allocated = @ + calculate_depreciation_amount(
                       calc.strategy, calc.depreciable_cents, calc.total_periods,
                       calc.period_index),
                   !.period_index = @ + 1]
    /\ UNCHANGED <<accounts, transactions, amortization_schedules, amortization_postings,
                   balance_snapshots, initial_balance, last, conns, shared, reserved,
                   auth_vars>>

DepNext == Allocate

DepSpec == DepInit /\ [][DepNext]_vars

----------------------------------------------------------------------------
(* Concurrent utilityReport requests.  Every request runs on a connection   *)
(* of its own (get_connection) against the one database file; SQLite's      *)
(* locks order them.  BEGIN is deferred: the first SELECT takes the SHARED  *)
(* lock, the first INSERT the RESERVED lock (one holder at a time, the       *)
(* others get "database is locked"), and COMMIT needs every other SHARED     *)
(* lock released.                                                           *)

\* The stores the concurrent requests start from: two accounts and one or
\* two asset purchases, made by the handlers.
ConcShapes ==
    {<<<<"Linear", 1, 0>>>>,
     <<<<"Accelerated", 2, 0>>, <<"Linear", 2, 0>>>>,
     <<<<"Linear", 1, 3>>, <<"Linear", 1, 0>>>>}

\* "2026-01", "2026-02", "2026-0x"
ConcPeriodKeys ==
    {<<<<2, 0, 2, 6>>, <<0, 1>>>>,
     <<<<2, 0, 2, 6>>, <<0, 2>>>>,
     <<<<2, 0, 2, 6>>, <<0, NonDigit>>>>}

RECURSIVE Purchased(_, _)
Purchased(db, shapes) ==
    IF shapes = <<>> THEN db
    ELSE Purchased(create_asset_purchase(
                       db, PurchaseInput(1, 2, 3, Head(shapes), <<2026, 1, 15>>, "None")).db,
                   Tail(shapes))

TwoAccounts ==
    create_account(
        create_account(EmptyDB, [name |-> "Cash", accountType |-> "Asset",
                                 initialBalanceCents |-> 2]).db,
        [name |-> "Cash", accountType |-> "Asset", initialBalanceCents |-> 2]).db

ConcInit ==
    \E shapes \in ConcShapes :
        \E db \in {Purchased(TwoAccounts, shapes)} :
            /\ accounts = db.accounts
            /\ transactions = db.transactions
            /\ amortization_schedules = db.amortization_schedules
            /\ amortization_postings = db.amortization_postings
            /\ balance_snapshots = db.balance_snapshots
            /\ initial_balance = <<2, 2>>
            /\ last = [op |-> "createAssetPurchase", code |-> OK,
                       ref |-> Len(db.transactions), delta |-> 0,
                       adj |-> Len(db.amortization_schedules)]
            /\ IdleInit

Finished(p, code) ==
    /\ conns' = [conns EXCEPT ![p].pc = "idle", ![p].code = code]
    /\ last' = [op |-> "utilityReport", code |-> code, ref |-> NULL, delta |-> 0,
                adj |-> NULL]

\* get_utility_report up to BEGIN: parse_period, get_connection, BEGIN.
ReportBegin(p) ==
    /\ conns[p].pc = "idle"
    /\ \E period_ym \in ConcPeriodKeys :
          IF ~parse_period(period_ym).ok
          THEN /\ conns' = [conns EXCEPT ![p].period_ym = period_ym,
                                         ![p].code = "invalid_input"]
               /\ last' = [op |-> "utilityReport", code |-> "invalid_input", ref |-> NULL,
                           delta |-> 0, adj |-> NULL]
          ELSE /\ conns' = [conns EXCEPT ![p].pc = "begun", ![p].period_ym = period_ym]
               /\ UNCHANGED last
    /\ UNCHANGED <<store_vars, initial_balance, shared, reserved, calc, auth_vars>>

\* The SELECT of the Active schedules: the connection takes the SHARED lock
\* and from now on reads the store as it is at this moment.
ReportSelect(p) ==
    /\ conns[p].pc = "begun"
    /\ shared' = shared \cup {p}
    /\ conns' = [conns EXCEPT ![p].pc = "selected", ![p].st = Begin(DB)]
    /\ UNCHANGED <<store_vars, initial_balance, last, reserved, calc, auth_vars>>

\* The loop over the schedules.  Its first INSERT needs the RESERVED lock;
\* when another connection holds it the INSERT raises sqlite3.OperationalError
\* and db.transaction rolls back.
ReportPost(p) ==
    /\ conns[p].pc = "selected"
    /\ \E st \in {ensure_depreciation_for_period(conns[p].st, conns[p].period_ym)} :
          IF st.db = conns[p].st.db
          THEN /\ conns' = [conns EXCEPT ![p].pc = "commit", ![p].st = st]
               /\ UNCHANGED <<shared, reserved, last>>
          ELSE IF reserved \notin {0, p}
          THEN /\ Finished(p, "db_error")
               /\ shared' = shared \ {p}
               /\ UNCHANGED reserved
          ELSE /\ conns' = [conns EXCEPT ![p].pc = "commit", ![p].st = st]
               /\ reserved' = p
               /\ UNCHANGED <<shared, last>>
    /\ UNCHANGED <<store_vars, initial_balance, calc, auth_vars>>

\* conn.commit() (or conn.rollback() when the loop raised): the writes reach
\* the store once no other connection holds a SHARED lock.
ReportCommit(p) ==
    /\ conns[p].pc = "commit"
    /\ reserved = p => shared \ {p} = {}
    /\ \E db \in {transaction(DB, conns[p].st)} :
          /\ accounts' = db.accounts
          /\ transactions' = db.transactions
          /\ amortization_schedules' = db.amortization_schedules
          /\ amortization_postings' = db.amortization_postings
          /\ balance_snapshots' = db.balance_snapshots
    /\ Finished(p, conns[p].st.err)
    /\ shared' = shared \ {p}
    /\ reserved' = IF reserved = p THEN 0 ELSE reserved
    /\ UNCHANGED <<initial_balance, calc, auth_vars>>

\* conn.commit() gives up after the busy timeout while another connection
\* keeps its SHARED lock: sqlite3.OperationalError, rollback.
ReportCommitBusy(p) ==
    /\ conns[p].pc = "commit"
    /\ reserved = p
    /\ shared \ {p} # {}
    /\ Finished(p, "db_error")
    /\ shared' = shared \ {p}
    /\ reserved' = 0
    /\ UNCHANGED <<store_vars, initial_balance, calc, auth_vars>>

ConcNext ==
    \E p \in Procs :
        \/ ReportBegin(p)
        \/ ReportSelect(p)
        \/ ReportPost(p)
        \/ ReportCommit(p)
        \/ ReportCommitBusy(p)

ConcSpec == ConcInit /\ [][ConcNext]_vars

----------------------------------------------------------------------------
(* Concurrent reconcile requests.  reconcile_account reads the balance with *)
(* a SELECT of its own, before BEGIN: the connection holds no lock between  *)
(* the read and the transaction, and the transactions of other requests     *)
(* commit in between.  Each transaction starts with a write, so SQLite's     *)
(* RESERVED lock runs the transactions one after the other.                 *)

\* The stores the requests start from: one account, made by create_account.
RaceAccountInputs ==
    {[name |-> "Cash", accountType |-> "Asset", initialBalanceCents |-> 2],
     [name |-> "Cash", accountType |-> "Liability", initialBalanceCents |-> -2]}

\* Requests on the account and on an absent one.
RaceReconcileInputs ==
    {[accountId |-> account, actualBalanceCents |-> actual, occurredAt |-> "None"] :
        account \in {1, MaxAccounts + 1}, actual \in {-2, 1}}

RaceTransactionInputs ==
    {TransactionInput(2, from, to, "None", FALSE, "None") :
        from \in {NULL, 1}, to \in {NULL, 1}}

RaceInit ==
    \E first \in RaceAccountInputs :
        \E db \in {create_account(EmptyDB, first).db} :
            /\ accounts = db.accounts
            /\ transactions = db.transactions
            /\ amortization_schedules = db.amortization_schedules
            /\ amortization_postings = db.amortization_postings
            /\ balance_snapshots = db.balance_snapshots
            /\ initial_balance = <<first.initialBalanceCents>>
            /\ last = [op |-> "createAccount", code |-> OK, ref |-> Len(db.accounts),
                       delta |-> 0, adj |-> NULL]
            /\ IdleInit

\* Lines 418-426: the SELECT of the balance, not_found for an absent account.
ReconcileRead(p) ==
    /\ conns[p].pc = "idle"
    /\ \E input \in RaceReconcileInputs :
          IF ~AccountExists(DB, input.accountId)
          THEN /\ conns' = [conns EXCEPT ![p].code = "not_found"]
               /\ last' = [op |-> "reconcile", code |-> "not_found", ref |-> NULL,
                           delta |-> 0, adj |-> NULL]
          ELSE /\ conns' = [conns EXCEPT
                               ![p].pc = "read",
                               ![p].input = input,
                               ![p].system_balance =
                                   accounts[input.accountId].balance_cents]
               /\ UNCHANGED last
    /\ UNCHANGED <<store_vars, initial_balance, shared, reserved, calc, auth_vars>>

\* Lines 428-474: the transaction, with the balance read before it.
ReconcileCommit(p) ==
    /\ conns[p].pc = "read"
    /\ \E r \in {ReconcileWrite(DB, conns[p].input, conns[p].system_balance)} :
          /\ Served("reconcile", r)
          /\ conns' = [conns EXCEPT ![p] = [NoConn EXCEPT !.code = r.code]]
    /\ UNCHANGED <<initial_balance, shared, reserved, calc, auth_vars>>

\* createTransaction on a connection of its own.
RaceTransaction ==
    \E input \in RaceTransactionInputs :
        \E r \in {create_transaction(DB, input)} :
            /\ Served("createTransaction", r)
            /\ UNCHANGED <<initial_balance, conns, shared, reserved, calc, auth_vars>>

RaceNext ==
    \/ \E p \in Procs : ReconcileRead(p)
    \/ \E p \in Procs : ReconcileCommit(p)
    \/ RaceTransaction

RaceSpec == RaceInit /\ [][RaceNext]_vars

----------------------------------------------------------------------------
(* The requests and their handlers *)

AllRequests ==
    {<<"createAccount", input>> : input \in CreateAccountInputs}
    \cup {<<"createTransaction", input>> : input \in CreateTransactionInputs}
    \cup {<<"createAssetPurchase", input>> : input \in CreateAssetPurchaseInputs}
    \cup {<<"reconcile", input>> : input \in ReconcileInputs}
    \cup {<<"utilityReport", period_ym>> : period_ym \in PeriodKeys}

\* What the service answers to a request on the store db.
Handle(db, request) ==
    CASE request[1] = "createAccount" -> create_account(db, request[2])
      [] request[1] = "createTransaction" -> create_transaction(db, request[2])
      [] request[1] = "createAssetPurchase" -> create_asset_purchase(db, request[2])
      [] request[1] = "reconcile" -> reconcile_account(db, request[2])
      [] request[1] = "utilityReport" -> get_utility_report(db, request[2])

----------------------------------------------------------------------------
(* Authentication: services/auth.py, and the routers main.py mounts *)

\* The lifetimes of the tokens and the reach of the clock, in clock steps.
AccessTokenTtl == 1
RefreshTokenTtl == 2
MaxClock == 3
MaxRefreshTokens == 2
MaxTokenValues == 3

\* What secrets.token_urlsafe returns.
RefreshTokenValues == 1..MaxTokenValues

\* hashlib.sha256(...).hexdigest(): a function of the token without collisions.
hash_refresh_token(refresh_token) == <<"sha256", refresh_token>>

\* bcrypt.hashpw and bcrypt.checkpw, the salt left out.
hash_password(plain_password) == <<"bcrypt", plain_password>>

verify_password(plain_password, hashed_password) ==
    hashed_password = hash_password(plain_password)

\* Table users after initialize_database: the default admin.  No operation
\* writes to it afterwards.
users ==
    <<[email |-> "admin@oikonomos.local",
       password_hash |-> hash_password("ChangeMe123!"),
       is_active |-> 1]>>

\* str(input_data.email).strip().lower() on the addresses of LoginInputs.
NormalizeEmail(email) ==
    IF email = " Admin@Oikonomos.Local " THEN "admin@oikonomos.local" ELSE email

\* HTTP status of an error code: ApiError's status_code and the handlers of
\* main.py.
StatusOf(code) ==
    CASE code = OK -> 200
      [] code \in {"auth_unauthorized", "auth_token_expired", "auth_invalid_credentials"} -> 401
      [] code = "auth_forbidden" -> 403
      [] code = "not_found" -> 404
      [] OTHER -> 400

\* The JWT _create_access_token signs with the secret.
create_access_token(user_id, email, now) ==
    [sub |-> user_id, type |-> "access", exp |-> now + AccessTokenTtl, signed |-> TRUE]

NoAccessToken == [sub |-> NULL, type |-> "none", exp |-> 0, signed |-> FALSE]

AuthResp(tokens, code, access_token, refresh_token) ==
    [tokens |-> tokens, code |-> code, status |-> StatusOf(code),
     accessToken |-> access_token, refreshToken |-> refresh_token]

AuthFail(tokens, code) == AuthResp(tokens, code, NoAccessToken, NULL)

\* The row of user_refresh_tokens with this token_hash (the column is UNIQUE),
\* NULL if there is none.
TokenRow(tokens, token_hash) ==
    IF \E i \in 1..Len(tokens) : tokens[i].token_hash = token_hash
    THEN CHOOSE i \in 1..Len(tokens) : tokens[i].token_hash = token_hash
    ELSE NULL

\* _store_refresh_token: INSERT INTO user_refresh_tokens, with the UNIQUE
\* index on token_hash and the foreign key on user_id.  st is the
\* connection's view of the table and the exception raised so far.
store_refresh_token(st, user_id, refresh_token, now) ==
    IF st.err # OK THEN st
    ELSE IF \/ TokenRow(st.tokens, hash_refresh_token(refresh_token)) # NULL
            \/ user_id \notin 1..Len(users)
         THEN [st EXCEPT !.err = "db_integrity_error"]
         ELSE [st EXCEPT !.tokens =
                  Append(@, [user_id |-> user_id,
                             token_hash |-> hash_refresh_token(refresh_token),
                             expires_at |-> now + RefreshTokenTtl,
                             revoked_at |-> NULL])]

\* login_user; new_token is what _create_refresh_token returned.
login_user(tokens, now, input, new_token) ==
    LET email == NormalizeEmail(input.email)
        row == IF \E i \in 1..Len(users) : users[i].email = email
               THEN CHOOSE i \in 1..Len(users) : users[i].email = email
               ELSE NULL
    IN IF row = NULL THEN AuthFail(tokens, "auth_invalid_credentials")
       ELSE IF users[row].is_active # 1 THEN AuthFail(tokens, "auth_invalid_credentials")
       ELSE IF ~verify_password(input.password, users[row].password_hash)
            THEN AuthFail(tokens, "auth_invalid_credentials")
       ELSE LET st == store_refresh_token([tokens |-> tokens, err |-> OK], row, new_token, now)
            IN IF st.err # OK THEN AuthFail(tokens, st.err)
               ELSE AuthResp(st.tokens, OK,
                             create_access_token(row, users[row].email, now), new_token)

\* The SELECT and the checks of refresh_auth_tokens (lines 101-119): the code
\* it raises, OK if none, and the row it found.
RefreshRead(tokens, now, refresh_token) ==
    LET row == TokenRow(tokens, hash_refresh_token(refresh_token))
    IN IF row = NULL THEN [code |-> "auth_unauthorized", row |-> NULL]
       ELSE IF tokens[row].user_id \notin 1..Len(users)
            THEN [code |-> "auth_unauthorized", row |-> NULL]
       ELSE IF users[tokens[row].user_id].is_active # 1 \/ tokens[row].revoked_at # NULL
            THEN [code |-> "auth_unauthorized", row |-> row]
       ELSE IF tokens[row].expires_at <= now
            THEN [code |-> "auth_token_expired", row |-> row]
       ELSE [code |-> OK, row |-> row]

\* The transaction of refresh_auth_tokens without its UPDATE: the presented
\* token stays as it was.
RefreshWriteKeep(tokens, now, row, new_token) ==
    LET user_id == tokens[row].user_id
        st == store_refresh_token([tokens |-> tokens, err |-> OK], user_id, new_token, now)
    IN IF st.err # OK THEN AuthFail(tokens, st.err)
       ELSE AuthResp(st.tokens, OK,
                     create_access_token(user_id, users[user_id].email, now), new_token)

\* The transaction of refresh_auth_tokens (lines 121-127) for the row the
\* SELECT found: revoke it, store the new token; rolled back on an exception.
RefreshWrite(tokens, now, row, new_token) ==
    LET user_id == tokens[row].user_id
        st1 == [tokens |-> [tokens EXCEPT ![row].revoked_at = now], err |-> OK]
        st2 == store_refresh_token(st1, user_id, new_token, now)
    IN IF st2.err # OK THEN AuthFail(tokens, st2.err)
       ELSE AuthResp(st2.tokens, OK,
                     create_access_token(user_id, users[user_id].email, now), new_token)

refresh_auth_tokens(tokens, now, refresh_token, new_token) ==
    LET read == RefreshRead(tokens, now, refresh_token)
    IN IF read.code # OK THEN AuthFail(tokens, read.code)
       ELSE RefreshWrite(tokens, now, read.row, new_token)

\* logout_refresh_token that writes nothing.
logout_refresh_token_noop(tokens, now, refresh_token) ==
    AuthResp(tokens, OK, NoAccessToken, NULL)

\* logout_refresh_token and the {"ok": True} of post_logout.
logout_refresh_token(tokens, now, refresh_token) ==
    AuthResp([i \in 1..Len(tokens) |->
                 IF /\ tokens[i].token_hash = hash_refresh_token(refresh_token)
                    /\ tokens[i].revoked_at = NULL
                 THEN [tokens[i] EXCEPT !.revoked_at = now]
                 ELSE tokens[i]],
             OK, NoAccessToken, NULL)

\* The Authorization header as HTTPBearer(auto_error=False) hands it on.
NoCredentials == [scheme |-> "", credentials |-> NoAccessToken]

\* credentials.scheme.lower() on the schemes of the requests.
LowerScheme(scheme) == IF scheme = "Bearer" THEN "bearer" ELSE scheme

\* get_current_user: the code it raises, OK for a caller it lets through.
get_current_user(credentials, now) ==
    LET token == credentials.credentials
    IN IF credentials = NoCredentials \/ LowerScheme(credentials.scheme) # "bearer"
       THEN "auth_unauthorized"
       ELSE IF ~token.signed THEN "auth_unauthorized"
       ELSE IF token.exp <= now THEN "auth_token_expired"
       ELSE IF token.type # "access" THEN "auth_unauthorized"
       ELSE IF token.sub = NULL THEN "auth_unauthorized"
       ELSE IF token.sub \notin 1..Len(users) THEN "auth_forbidden"
       ELSE IF users[token.sub].is_active # 1 THEN "auth_forbidden"
       ELSE OK

\* The read-only operations of the core: the store is left as it is.
init_state(db) == Resp(db, OK, NULL, 0, NULL)

list_accounts(db) == Resp(db, OK, Len(db.accounts), 0, NULL)

list_transactions(db, period_ym) ==
    IF period_ym # NoKey /\ ~parse_period(period_ym).ok THEN Fail(db, "invalid_input")
    ELSE Resp(db, OK, NULL, 0, NULL)

\* get_cash_flow_report that materializes depreciation first, as
\* get_utility_report does.
get_cash_flow_report_ensuring(db, period_ym) ==
    LET r == get_utility_report(db, period_ym)
    IN Resp(r.db, r.code, NULL, 0, NULL)

get_cash_flow_report(db, period_ym) ==
    IF ~parse_period(period_ym).ok THEN Fail(db, "invalid_input")
    ELSE Resp(db, OK, NULL, 0, NULL)

list_adjustment_kpi(db, input) ==
    IF input.fromPeriodYm # NoKey /\ ~parse_period(input.fromPeriodYm).ok
    THEN Fail(db, "invalid_input")
    ELSE IF input.toPeriodYm # NoKey /\ ~parse_period(input.toPeriodYm).ok
         THEN Fail(db, "invalid_input")
    ELSE Resp(db, OK, NULL, 0, NULL)

\* The endpoints of the routers included in protected_api, by operation.
Endpoint(db, request) ==
    CASE request[1] = "init" -> init_state(db)
      [] request[1] = "listAccounts" -> list_accounts(db)
      [] request[1] = "listTransactions" -> list_transactions(db, request[2])
      [] request[1] = "cashFlowReport" -> get_cash_flow_report(db, request[2])
      [] request[1] = "adjustmentKpi" -> list_adjustment_kpi(db, request[2])
      [] OTHER -> Handle(db, request)

\* protected_api without its dependency on get_current_user.
protected_api_open(db, now, credentials, request) ==
    LET r == Endpoint(db, request)
    IN r @@ [status |-> StatusOf(r.code)]

\* A request to a route of protected_api: get_current_user runs before the
\* endpoint.
protected_api(db, now, credentials, request) ==
    LET code == get_current_user(credentials, now)
    IN IF code # OK THEN Fail(db, code) @@ [status |-> StatusOf(code)]
       ELSE LET r == Endpoint(db, request)
            IN r @@ [status |-> StatusOf(r.code)]

\* GET /healthz.
healthz == [status |-> 200, body |-> "ok"]

\* The requests to the authentication routes and the credentials the model
\* sends.
LoginInputs ==
    {[email |-> email, password |-> password] :
        email \in {"admin@oikonomos.local", " Admin@Oikonomos.Local ", "guest@oikonomos.local"},
        password \in {"ChangeMe123!", "wrong"}}

\* Every shape of Authorization header get_current_user tells apart.
Credentials(now) ==
    {NoCredentials}
    \cup {[scheme |-> scheme,
           credentials |-> [sub |-> sub, type |-> type, exp |-> exp, signed |-> signed]] :
             scheme \in {"Bearer", "bearer", "Basic"}, sub \in {NULL, 1},
             type \in {"access", "refresh"}, exp \in {now, now + AccessTokenTtl},
             signed \in BOOLEAN}

\* The headers a client can send: none, a token of its own making, and the
\* access tokens login and refresh issued up to now.
ClientCredentials(now) ==
    {NoCredentials}
    \cup {[scheme |-> "Bearer",
           credentials |-> [sub |-> 1, type |-> "access", exp |-> exp, signed |-> FALSE]] :
             exp \in {now + AccessTokenTtl}}
    \cup {[scheme |-> scheme, credentials |-> create_access_token(1, users[1].email, iat)] :
             scheme \in {"Bearer", "Basic"}, iat \in {now - AccessTokenTtl, now}}

\* One request to every route of protected_api.
ProtectedRequests ==
    {<<"init", NoKey>>, <<"listAccounts", NoKey>>, <<"listTransactions", NoKey>>,
     <<"cashFlowReport", MonthKey(2026, 2)>>,
     <<"adjustmentKpi", [fromPeriodYm |-> NoKey, toPeriodYm |-> NoKey]>>,
     <<"utilityReport", MonthKey(2026, 1)>>,
     <<"createAccount", [name |-> "Cash", accountType |-> "Asset", initialBalanceCents |-> 2]>>,
     <<"createTransaction", TransactionInput(2, NULL, 1, "None", FALSE, "None")>>,
     <<"createAssetPurchase",
       PurchaseInput(1, 1, 3, <<"Linear", 1, 0>>, <<2026, 1, 15>>, "None")>>,
     <<"reconcile", [accountId |-> 1, actualBalanceCents |-> 1, occurredAt |-> "None"]>>}

\* The requests to the routes that only read: GET /accounts, GET
\* /transactions, GET /reports/cash_flow and GET /kpis/adjustment, with and
\* without their optional period keys.
ReadRequests ==
    {<<"listAccounts", NoKey>>}
    \cup {<<"listTransactions", period_ym>> : period_ym \in PeriodKeys \cup {NoKey}}
    \cup {<<"cashFlowReport", period_ym>> : period_ym \in PeriodKeys}
    \cup {<<"adjustmentKpi", [fromPeriodYm |-> from, toPeriodYm |-> to]>> :
            from \in {NoKey, MonthKey(2026, 1), MonthKey(2026, 13)},
            to \in {NoKey, MonthKey(2026, 2)}}

\* The requests the clients of the authentication model send to protected_api.
CallRequests ==
    {request \in ProtectedRequests :
        request[1] \in {"init", "listAccounts", "createAccount"}}

AuthInit == Init

\* last of an authentication request: ref is the refresh token issued, adj the
\* one presented, delta the HTTP status.
AuthServed(op, r, presented) ==
    /\ Len(r.tokens) <= MaxRefreshTokens
    /\ user_refresh_tokens' = r.tokens
    /\ last' = [op |-> op, code |-> r.code, ref |-> r.refreshToken, delta |-> r.status,
                adj |-> presented]
    /\ UNCHANGED <<store_vars, initial_balance, conns, shared, reserved, calc, clock>>

Login ==
    \E input \in LoginInputs, new_token \in RefreshTokenValues :
        AuthServed("login", login_user(user_refresh_tokens, clock, input, new_token), NULL)

Refresh ==
    \E refresh_token \in RefreshTokenValues, new_token \in RefreshTokenValues :
        AuthServed("refresh",
                   refresh_auth_tokens(user_refresh_tokens, clock, refresh_token, new_token),
                   refresh_token)

Logout ==
    \E refresh_token \in RefreshTokenValues :
        AuthServed("logout",
                   logout_refresh_token(user_refresh_tokens, clock, refresh_token),
                   refresh_token)

\* Time passes.
Tick ==
    /\ clock < MaxClock
    /\ clock' = clock + 1
    /\ UNCHANGED <<store_vars, initial_balance, last, conns, shared, reserved, calc,
                   user_refresh_tokens>>

\* A request to a route of protected_api.
Call ==
    \E credentials \in ClientCredentials(clock), request \in CallRequests :
        \E r \in {protected_api(DB, clock, credentials, request)} :
            /\ Served(request[1], r)
            /\ initial_balance' = IF request[1] = "createAccount" /\ r.code = OK
                                  THEN Append(initial_balance, request[2].initialBalanceCents)
                                  ELSE initial_balance
            /\ UNCHANGED <<conns, shared, reserved, calc, auth_vars>>

AuthNext ==
    \/ Login
    \/ Refresh
    \/ Logout
    \/ Tick
    \/ Call

AuthSpec == AuthInit /\ [][AuthNext]_vars

----------------------------------------------------------------------------
(* refresh_auth_tokens, two requests at a time *)

\* The rows user_refresh_tokens may hold while two requests are served.
MaxRaceTokens == 3

\* The connection of a refresh request: the token it presented, the row its
\* SELECT returned and, once it is answered, the code and the token issued.
RefreshConn(pc, refresh_token, row, code, issued) ==
    [NoConn EXCEPT !.pc = pc, !.code = code,
                   !.input = [refreshToken |-> refresh_token, row |-> row,
                              issued |-> issued]]

\* The admin has logged in once.
RefreshRaceInit ==
    \E new_token \in RefreshTokenValues :
        \E r \in {login_user(<<>>, 1, [email |-> "admin@oikonomos.local",
                                       password |-> "ChangeMe123!"], new_token)} :
            /\ accounts = <<>>
            /\ transactions = <<>>
            /\ amortization_schedules = <<>>
            /\ amortization_postings = <<>>
            /\ balance_snapshots = <<>>
            /\ initial_balance = <<>>
            /\ last = [op |-> "login", code |-> r.code, ref |-> r.refreshToken,
                       delta |-> r.status, adj |-> NULL]
            /\ conns = [p \in Procs |-> NoConn]
            /\ shared = {}
            /\ reserved = 0
            /\ calc = NoCalc
            /\ user_refresh_tokens = r.tokens
            /\ clock = 1

\* Lines 101-119: the SELECT and the checks, made before the transaction
\* opens; a request they refuse is answered at once.
RefreshSelect(p) ==
    /\ conns[p].pc = "idle"
    /\ \E refresh_token \in RefreshTokenValues :
          \E read \in {RefreshRead(user_refresh_tokens, clock, refresh_token)} :
              IF read.code # OK
              THEN /\ conns' = [conns EXCEPT ![p] =
                                   RefreshConn("done", refresh_token, read.row,
                                               read.code, NULL)]
                   /\ last' = [op |-> "refresh", code |-> read.code, ref |-> NULL,
                               delta |-> StatusOf(read.code), adj |-> refresh_token]
              ELSE /\ conns' = [conns EXCEPT ![p] =
                                   RefreshConn("read", refresh_token, read.row, OK, NULL)]
                   /\ UNCHANGED last
    /\ UNCHANGED <<store_vars, initial_balance, shared, reserved, calc, auth_vars>>

\* Lines 121-135: the transaction on the row the SELECT returned, and the
\* answer.
RefreshCommit(p) ==
    /\ conns[p].pc = "read"
    /\ \E new_token \in RefreshTokenValues :
          \E r \in {RefreshWrite(user_refresh_tokens, clock, conns[p].input.row, new_token)} :
              /\ Len(r.tokens) <= MaxRaceTokens
              /\ user_refresh_tokens' = r.tokens
              /\ conns' = [conns EXCEPT ![p] =
                              RefreshConn("done", conns[p].input.refreshToken,
                                          conns[p].input.row, r.code, r.refreshToken)]
              /\ last' = [op |-> "refresh", code |-> r.code, ref |-> r.refreshToken,
                          delta |-> r.status, adj |-> conns[p].input.refreshToken]
    /\ UNCHANGED <<store_vars, initial_balance, shared, reserved, calc, clock>>

RefreshRaceNext ==
    \/ \E p \in Procs : RefreshSelect(p)
    \/ \E p \in Procs : RefreshCommit(p)
    \/ Tick

RefreshRaceSpec == RefreshRaceInit /\ [][RefreshRaceNext]_vars

----------------------------------------------------------------------------
(* Properties of the service *)

\* C1: in every reachable state of the store, every account of type
\* Liability has a balance that is zero or negative.
LiabilityNeverPositive ==
    \A i \in 1..Len(accounts) :
        accounts[i].type = "Liability" => accounts[i].balance_cents <= 0

\* A Liability account stands at zero and a request that would have pushed
\* it above zero has just been refused.
LiabilityPushRefused ==
    /\ last.op \in {"createTransaction", "reconcile"}
    /\ last.code = "db_integrity_error"
    /\ Len(accounts) = MaxAccounts
    /\ \E i \in 1..Len(accounts) :
          accounts[i].type = "Liability" /\ accounts[i].balance_cents = 0

\* The balance of account a after amount moved from account from to account to.
Moved(db, a, from, to, amount) ==
    db.accounts[a].balance_cents
        + (IF to = a THEN amount ELSE 0) - (IF from = a THEN amount ELSE 0)

\* Every write of a request that succeeded is in the store out it left.
AllWritesPresent(db, request, out) ==
    LET input == request[2]
    IN CASE request[1] = "createAccount" ->
              /\ Len(out.accounts) = Len(db.accounts) + 1
              /\ out.accounts[Len(out.accounts)].balance_cents = input.initialBalanceCents
         [] request[1] = "createTransaction" ->
              /\ Len(out.transactions) = Len(db.transactions) + 1
              /\ input.accrualType # "Depreciation" =>
                    \A a \in 1..Len(db.accounts) :
                        out.accounts[a].balance_cents
                            = Moved(db, a, input.fromAccountId, input.toAccountId,
                                    input.amountCents)
         [] request[1] = "createAssetPurchase" ->
              /\ Len(out.transactions) = Len(db.transactions) + 1
              /\ Len(out.amortization_schedules) = Len(db.amortization_schedules) + 1
              /\ out.amortization_schedules[Len(out.amortization_schedules)]
                     .source_transaction_id = Len(out.transactions)
              /\ \A a \in 1..Len(db.accounts) :
                     out.accounts[a].balance_cents
                         = Moved(db, a, input.fromAccountId, input.assetAccountId,
                                 input.amountCents)
         [] request[1] = "reconcile" ->
              LET system == db.accounts[input.accountId].balance_cents
              IN /\ Len(out.balance_snapshots) = Len(db.balance_snapshots) + 1
                 /\ out.accounts[input.accountId].balance_cents = input.actualBalanceCents
                 /\ Len(out.transactions)
                        = Len(db.transactions)
                              + (IF input.actualBalanceCents = system THEN 0 ELSE 1)
         [] request[1] = "utilityReport" ->
              /\ Len(out.transactions) - Len(db.transactions)
                     = Len(out.amortization_postings) - Len(db.amortization_postings)
              /\ \A i \in Len(db.amortization_postings) + 1
                              ..Len(out.amortization_postings) :
                     out.amortization_postings[i].transaction_id
                         \in Len(db.transactions) + 1..Len(out.transactions)

\* C2: a request that fails at any step leaves accounts, transactions,
\* schedules, postings and snapshots exactly as they were; a request that
\* succeeds leaves all of its writes.
NoPartialSuccess ==
    \A request \in AllRequests :
        LET r == Handle(DB, request)
        IN IF r.code # OK THEN r.db = DB ELSE AllWritesPresent(DB, request, r.db)

\* An asset purchase has just failed at a balance update, after its INSERT
\* (both accounts exist, so no foreign key refused the row), and rows stand.
FailedAfterFirstWrite ==
    /\ last.op = "createAssetPurchase"
    /\ last.code = "db_integrity_error"
    /\ Len(accounts) = MaxAccounts
    /\ Len(transactions) > 0

\* C3: for the Linear and the Accelerated strategy, a positive depreciable
\* amount and a positive number of periods, the amounts of the periods
\* 0..totalPeriods-1 add up to the depreciable amount.
AllocationSumsToDepreciable ==
    calc.period_index = calc.total_periods => calc.allocated = calc.depreciable_cents

\* Every period of an Accelerated schedule that does not divide evenly has
\* been allocated.
UnevenScheduleAllocated ==
    /\ calc.strategy = "Accelerated"
    /\ calc.total_periods >= 3
    /\ calc.depreciable_cents % calc.total_periods # 0
    /\ calc.period_index = calc.total_periods

\* The Active schedules for which period_ym is due: inside the schedule's
\* range and with a positive amount.
DueSchedules(db, period_ym) ==
    LET period == parse_period(period_ym)
    IN {schedule_id \in 1..Len(db.amortization_schedules) :
           /\ db.amortization_schedules[schedule_id].status = "Active"
           /\ PeriodIndex(db, schedule_id, period) >= 0
           /\ PeriodIndex(db, schedule_id, period)
                  < db.amortization_schedules[schedule_id].total_periods
           /\ ScheduleAmount(db, schedule_id, PeriodIndex(db, schedule_id, period)) > 0}

PostingRows(db, schedule_id, period_ym) ==
    {i \in 1..Len(db.amortization_postings) :
        /\ db.amortization_postings[i].schedule_id = schedule_id
        /\ db.amortization_postings[i].period_ym = period_ym}

\* C4: two calls of ensureDepreciationForPeriod with the same periodYm and
\* nothing in between leave, for every due schedule, exactly one posting and
\* exactly one Depreciation transaction; the second call changes nothing.
EnsureIdempotent ==
    \A period_ym \in PeriodKeys :
        parse_period(period_ym).ok =>
            LET first == get_utility_report(DB, period_ym)
                second == get_utility_report(first.db, period_ym)
            IN /\ first.code = OK
               /\ second.code = OK
               /\ second.db = first.db
               /\ Len(first.db.transactions) - Len(DB.transactions)
                      = Len(first.db.amortization_postings) - Len(DB.amortization_postings)
               /\ \A schedule_id \in DueSchedules(DB, period_ym) :
                      LET rows == PostingRows(second.db, schedule_id, period_ym)
                      IN /\ Cardinality(rows) = 1
                         /\ \A i \in rows :
                               LET tx == second.db.amortization_postings[i].transaction_id
                               IN /\ second.db.transactions[tx].accrual_type = "Depreciation"
                                  /\ \A j \in 1..Len(second.db.amortization_postings) :
                                         second.db.amortization_postings[j].transaction_id = tx
                                             => j = i

\* A report has just been asked again for a period whose posting is in the
\* store: the call wrote nothing and passed over the posted schedule.
EnsureFoundPosted ==
    /\ last.op = "utilityReport"
    /\ last.code = OK
    /\ last.ref = 0
    /\ last.adj >= 1

\* C5: the store never holds two postings of one (schedule, periodYm), also
\* when utilityReport requests for the same period interleave.
OnePostingPerSchedulePeriod ==
    \A i, j \in 1..Len(amortization_postings) :
        (/\ amortization_postings[i].schedule_id = amortization_postings[j].schedule_id
         /\ amortization_postings[i].period_ym = amortization_postings[j].period_ym)
            => i = j

\* Two requests for one period ran side by side: one lost the RESERVED lock
\* and was rolled back, the other committed the period's posting.
RacedForOnePeriod ==
    \E p, q \in Procs :
        /\ p # q
        /\ conns[p].pc = "idle" /\ conns[q].pc = "idle"
        /\ conns[p].period_ym = conns[q].period_ym
        /\ conns[p].code = "db_error"
        /\ conns[q].code = OK
        /\ \E i \in 1..Len(amortization_postings) :
              amortization_postings[i].period_ym = conns[q].period_ym

PostingsOf(db, schedule_id) ==
    {db.amortization_postings[i] : i \in
        {j \in 1..Len(db.amortization_postings) :
            db.amortization_postings[j].schedule_id = schedule_id}}

\* C6: a schedule whose final period is posted is Completed in the state the
\* posting appears in, and no later call of ensureDepreciationForPeriod adds
\* a posting or a Depreciation transaction for a Completed schedule.
FinalPeriodCompletes ==
    /\ \A i \in 1..Len(amortization_postings) :
          LET schedule_id == amortization_postings[i].schedule_id
              row == amortization_schedules[schedule_id]
          IN PeriodIndex(DB, schedule_id, parse_period(amortization_postings[i].period_ym))
                 = row.total_periods - 1
                 => row.status = "Completed"
    /\ \A period_ym \in PeriodKeys :
          LET r == get_utility_report(DB, period_ym)
          IN \A schedule_id \in 1..Len(amortization_schedules) :
                 amortization_schedules[schedule_id].status = "Completed" =>
                     /\ r.db.amortization_schedules[schedule_id].status = "Completed"
                     /\ PostingsOf(r.db, schedule_id) = PostingsOf(DB, schedule_id)
                     /\ Len(r.db.transactions) - Len(transactions)
                            = Len(r.db.amortization_postings) - Len(amortization_postings)

\* A report was asked after the schedule's final period was posted and the
\* schedule Completed; the call wrote nothing.
ReportAfterCompletion ==
    /\ last.op = "utilityReport"
    /\ last.code = OK
    /\ last.ref = 0
    /\ \E schedule_id \in 1..Len(amortization_schedules) :
          /\ amortization_schedules[schedule_id].status = "Completed"
          /\ PostingsOf(DB, schedule_id) # {}

\* C7: a balance delta that would make the balance of a Liability account
\* positive is refused with invalid_input, not with a store-integrity error,
\* and leaves the store as it was.
LiabilityPushIsInvalidInput ==
    /\ \A input \in ReconcileInputs :
          (/\ AccountExists(DB, input.accountId)
           /\ accounts[input.accountId].type = "Liability"
           /\ input.actualBalanceCents > 0
           /\ normalize_timestamp(input.occurredAt))
              => LET r == reconcile_account(DB, input)
                 IN r.code = "invalid_input" /\ r.db = DB
    /\ \A input \in CreateTransactionInputs :
          (/\ input.amountCents > 0
           /\ input.accrualType # "Depreciation"
           /\ normalize_timestamp(input.occurredAt)
           /\ AccountRefOk(DB, input.fromAccountId)
           /\ AccountExists(DB, input.toAccountId)
           /\ accounts[input.toAccountId].type = "Liability"
           /\ Moved(DB, input.toAccountId, input.fromAccountId, input.toAccountId,
                    input.amountCents) > 0)
              => LET r == create_transaction(DB, input)
                 IN r.code = "invalid_input" /\ r.db = DB

\* C8: a reconcile that succeeds with actual # system writes exactly one
\* Adjustment transaction of |actual - system| (toAccount for a positive
\* delta, fromAccount for a negative one), sets the balance to actual and
\* writes exactly one snapshot with delta = actual - system that refers to
\* the transaction.
ReconcileAdjusts ==
    \A input \in ReconcileInputs :
        AccountExists(DB, input.accountId) =>
            LET account == input.accountId
                actual == input.actualBalanceCents
                system == accounts[account].balance_cents
                r == reconcile_account(DB, input)
            IN (r.code = OK /\ actual # system) =>
                  /\ r.db.transactions
                         = Append(transactions,
                               [amount_cents |-> Abs(actual - system),
                                from_account_id |-> IF actual < system THEN account ELSE NULL,
                                to_account_id |-> IF actual > system THEN account ELSE NULL,
                                accrual_type |-> "Adjustment",
                                is_asset_purchase |-> FALSE,
                                occurred_at |-> OccurredAt(input.occurredAt)])
                  /\ r.db.accounts = [accounts EXCEPT ![account].balance_cents = actual]
                  /\ r.db.balance_snapshots
                         = Append(balance_snapshots,
                               [account_id |-> account,
                                actual_balance_cents |-> actual,
                                system_balance_cents |-> system,
                                delta_cents |-> actual - system,
                                adjustment_tx_id |-> Len(transactions) + 1])
                  /\ r.db.amortization_schedules = amortization_schedules
                  /\ r.db.amortization_postings = amortization_postings

\* A reconcile has just adjusted a balance.
ReconcileAdjusted ==
    /\ last.op = "reconcile"
    /\ last.code = OK
    /\ last.delta # 0
    /\ last.adj = Len(transactions)
    /\ accounts[last.ref].balance_cents
           = balance_snapshots[Len(balance_snapshots)].actual_balance_cents

\* C9: a reconcile with actual = system writes no transaction, changes no
\* balance, and writes exactly one snapshot, with delta 0 and no adjustment
\* reference.
ReconcileInBalance ==
    \A input \in ReconcileInputs :
        (/\ AccountExists(DB, input.accountId)
         /\ input.actualBalanceCents = accounts[input.accountId].balance_cents)
            => LET r == reconcile_account(DB, input)
               IN /\ r.code = OK
                  /\ r.db = [DB EXCEPT !.balance_snapshots =
                                Append(@, [account_id |-> input.accountId,
                                           actual_balance_cents |-> input.actualBalanceCents,
                                           system_balance_cents |-> input.actualBalanceCents,
                                           delta_cents |-> 0,
                                           adjustment_tx_id |-> NULL])]

\* A reconcile has just found an account in balance.
ReconcileFoundInBalance ==
    /\ last.op = "reconcile"
    /\ last.code = OK
    /\ last.delta = 0
    /\ last.adj = NULL
    /\ balance_snapshots # <<>>

\* What the first n rows of transactions moved to and from account a, the
\* Depreciation rows left out.
RECURSIVE LedgerSum(_, _, _)
LedgerSum(rows, a, n) ==
    IF n = 0 THEN 0
    ELSE LedgerSum(rows, a, n - 1)
             + (IF rows[n].accrual_type = "Depreciation" THEN 0
                ELSE (IF rows[n].to_account_id = a THEN rows[n].amount_cents ELSE 0)
                         - (IF rows[n].from_account_id = a THEN rows[n].amount_cents ELSE 0))

\* C10: the balance of every account is its initial balance plus the sum of
\* the non-Depreciation transactions to it minus the sum of those from it.
BalanceIsLedgerCache ==
    \A a \in 1..Len(accounts) :
        accounts[a].balance_cents
            = initial_balance[a] + LedgerSum(transactions, a, Len(transactions))

\* An account has moved off its initial balance, and the ledger holds an
\* asset purchase and an Adjustment row.
LedgerMovedBalance ==
    /\ \E a \in 1..Len(accounts) : accounts[a].balance_cents # initial_balance[a]
    /\ \E i \in 1..Len(transactions) : transactions[i].is_asset_purchase
    /\ \E i \in 1..Len(transactions) : transactions[i].accrual_type = "Adjustment"

\* C11: every transaction of accrual type Depreciation was written by
\* ensure_depreciation_for_period, that is, exactly one posting refers to it;
\* no other operation creates a Depreciation transaction.
DepreciationOnlyFromEnsure ==
    /\ \A i \in 1..Len(transactions) :
          transactions[i].accrual_type = "Depreciation" =>
              Cardinality({j \in 1..Len(amortization_postings) :
                              amortization_postings[j].transaction_id = i}) = 1
    /\ \A input \in CreateTransactionInputs :
          LET r == create_transaction(DB, input)
          IN \A i \in Len(transactions) + 1..Len(r.db.transactions) :
                 r.db.transactions[i].accrual_type # "Depreciation"

\* A key of the shape YYYY-MM: four digits, a dash, two digits that make a
\* month 01..12.
IsYearMonth(period_ym) ==
    /\ Len(period_ym) = 2
    /\ Len(period_ym[1]) = 4 /\ IsInt(period_ym[1])
    /\ Len(period_ym[2]) = 2 /\ IsInt(period_ym[2])
    /\ IntOf(period_ym[2]) \in 1..12

\* C12: an operation that takes a period key refuses, with invalid_input and
\* without writing, every key that is not of the shape YYYY-MM.
OnlyYearMonthAccepted ==
    \A period_ym \in PeriodKeys \cup ConcPeriodKeys :
        ~IsYearMonth(period_ym) =>
            LET r == get_utility_report(DB, period_ym)
            IN r.code = "invalid_input" /\ r.db = DB

\* The other arguments of a createTransaction request, in every combination.
\* No account, the first account, an id no account has.
AccountIds == {NULL, 1, MaxAccounts + 1}
AccrualTypes == {"None", "Adjustment", "Depreciation"}
Timestamps == {"None", "2026-02-22T12:00:00Z", "2026-02-22T12:00:00"}

\* C13: createTransaction with an amount of zero or less fails with
\* invalid_input, writes no row and changes no balance, whatever its other
\* arguments.
NonPositiveAmountRefused ==
    \A amount \in {0, -1}, from \in AccountIds, to \in AccountIds,
       accrual \in AccrualTypes, flag \in BOOLEAN, occurred \in Timestamps :
        LET r == create_transaction(
                     DB, TransactionInput(amount, from, to, accrual, flag, occurred))
        IN r.code = "invalid_input" /\ r.db = DB

\* A createTransaction request has just been refused as invalid on a store
\* with accounts and rows, where the request of an amount of zero between
\* the two accounts is refused.
AmountRefusedOnLedger ==
    /\ last.op = "createTransaction"
    /\ last.code = "invalid_input"
    /\ Len(accounts) = MaxAccounts
    /\ transactions # <<>>
    /\ create_transaction(DB, TransactionInput(0, 1, 2, "None", FALSE, "None")).code
           = "invalid_input"

\* Asset purchases that fail at least one of the checks of lines 353-361,
\* paid from an account that exists or from one that does not.
InvalidPurchaseInputs ==
    {input \in
        {PurchaseInput(from, 2, amount, <<strategy, periods, residual>>, start, "None") :
            from \in {1, MaxAccounts + 1}, amount \in {0, 3}, strategy \in Strategies,
            periods \in {0, 1}, residual \in {-1, 0, 4},
            start \in {<<2026, 1, 15>>, <<2026, 2, 30>>}} :
        \/ input.amountCents <= 0
        \/ input.totalPeriods <= 0
        \/ input.residualCents < 0
        \/ input.residualCents > input.amountCents
        \/ ~parse_date_ymd(input.startDate)}

\* C14: createAssetPurchase with amount <= 0, totalPeriods <= 0, residual < 0,
\* residual > amount or a startDate that is no calendar date fails with
\* invalid_input and leaves no transaction, no schedule and no balance change.
InvalidPurchaseRefused ==
    \A input \in InvalidPurchaseInputs :
        LET r == create_asset_purchase(DB, input)
        IN r.code = "invalid_input" /\ r.db = DB

\* An asset purchase has just been refused as invalid on a store where both
\* accounts exist, where a residual above the amount is refused.
PurchaseRefusedOnLedger ==
    /\ last.op = "createAssetPurchase"
    /\ last.code = "invalid_input"
    /\ Len(accounts) = MaxAccounts
    /\ create_asset_purchase(
           DB, PurchaseInput(1, 2, 3, <<"Linear", 1, 4>>, <<2026, 1, 15>>, "None")).code
           = "invalid_input"

\* C15: a successful createAssetPurchase adds exactly one transaction (Flow,
\* asset purchase, from the paying account to the asset account, of the
\* amount) and exactly one Active schedule that refers to it and to the asset
\* account, and moves the amount between the two balances; and every schedule
\* of the store has an asset-purchase Flow transaction to its asset account as
\* source, with a residual that is at most the amount of that transaction.
PurchaseCreatesSchedule ==
    /\ \A input \in CreateAssetPurchaseInputs :
          LET r == create_asset_purchase(DB, input)
          IN r.code = OK =>
                /\ r.db.transactions
                       = Append(transactions,
                             [amount_cents |-> input.amountCents,
                              from_account_id |-> input.fromAccountId,
                              to_account_id |-> input.assetAccountId,
                              accrual_type |-> "Flow",
                              is_asset_purchase |-> TRUE,
                              occurred_at |-> OccurredAt(input.occurredAt)])
                /\ r.db.amortization_schedules
                       = Append(amortization_schedules,
                             [asset_account_id |-> input.assetAccountId,
                              strategy |-> input.strategy,
                              total_periods |-> input.totalPeriods,
                              residual_cents |-> input.residualCents,
                              start_date |-> input.startDate,
                              source_transaction_id |-> Len(transactions) + 1,
                              status |-> "Active"])
                /\ Len(r.db.accounts) = Len(accounts)
                /\ \A a \in 1..Len(accounts) :
                       r.db.accounts[a]
                           = [accounts[a] EXCEPT !.balance_cents =
                                 Moved(DB, a, input.fromAccountId, input.assetAccountId,
                                       input.amountCents)]
                /\ r.db.amortization_postings = amortization_postings
                /\ r.db.balance_snapshots = balance_snapshots
    /\ \A schedule_id \in 1..Len(amortization_schedules) :
          LET row == amortization_schedules[schedule_id]
          IN /\ row.source_transaction_id \in 1..Len(transactions)
             /\ transactions[row.source_transaction_id].accrual_type = "Flow"
             /\ transactions[row.source_transaction_id].is_asset_purchase
             /\ transactions[row.source_transaction_id].to_account_id = row.asset_account_id
             /\ row.residual_cents <= transactions[row.source_transaction_id].amount_cents
             /\ row.residual_cents >= 0

\* An asset purchase has just succeeded and its schedule, with a residual
\* above zero, is in the store.
PurchaseJustMade ==
    /\ last.op = "createAssetPurchase"
    /\ last.code = OK
    /\ last.ref = Len(transactions)
    /\ last.adj = Len(amortization_schedules)
    /\ amortization_schedules[last.adj].source_transaction_id = last.ref
    /\ amortization_schedules[last.adj].residual_cents > 0

\* C16: createTransaction with an accrual type other than Depreciation (the
\* default Flow included) and with neither fromAccount nor toAccount fails
\* with invalid_input and creates no rows.
AccountlessTransactionRefused ==
    \A amount \in {-1, 2}, accrual \in {"None", "Flow", "Adjustment"}, flag \in BOOLEAN,
       occurred \in Timestamps :
        LET r == create_transaction(
                     DB, TransactionInput(amount, NULL, NULL, accrual, flag, occurred))
        IN r.code = "invalid_input" /\ r.db = DB

\* A transaction has just been refused as invalid on a store with accounts and
\* a ledger, where a positive amount without accounts is refused.
AccountlessRefusedOnLedger ==
    /\ last.op = "createTransaction"
    /\ last.code = "invalid_input"
    /\ accounts # <<>>
    /\ transactions # <<>>
    /\ TransactionInput(2, NULL, NULL, "None", FALSE, "None") \in CreateTransactionInputs
    /\ create_transaction(DB, TransactionInput(2, NULL, NULL, "None", FALSE, "None")).code
           = "invalid_input"

\* C17: createTransaction and createAssetPurchase whose fromAccount or
\* toAccount names an account that does not exist fail with not_found, create
\* no transaction row and change no balance.
MissingAccountIsNotFound ==
    /\ \A from \in AccountIds, to \in AccountIds :
          (\/ from # NULL /\ ~AccountExists(DB, from)
           \/ to # NULL /\ ~AccountExists(DB, to)) =>
              LET r == create_transaction(
                           DB, TransactionInput(2, from, to, "None", FALSE, "None"))
              IN r.code = "not_found" /\ r.db = DB
    /\ \A from \in AccountIds \ {NULL}, asset \in AccountIds \ {NULL} :
          (~AccountExists(DB, from) \/ ~AccountExists(DB, asset)) =>
              LET r == create_asset_purchase(
                           DB, PurchaseInput(from, asset, 3, <<"Linear", 1, 0>>,
                                             <<2026, 1, 15>>, "None"))
              IN r.code = "not_found" /\ r.db = DB

\* C18: reconcile on an account id that no account has fails with not_found
\* and records no snapshot and no transaction.
ReconcileMissingAccount ==
    \A account \in 0..MaxAccounts + 1, actual \in {-2, 0, 1}, occurred \in Timestamps :
        ~AccountExists(DB, account) =>
            LET r == reconcile_account(
                         DB, [accountId |-> account, actualBalanceCents |-> actual,
                              occurredAt |-> occurred])
            IN r.code = "not_found" /\ r.db = DB

\* A reconciliation has just been refused for an account that is not there,
\* on a store that has another account and a ledger.
ReconcileRefusedMissing ==
    /\ last.op = "reconcile"
    /\ last.code = "not_found"
    /\ Len(accounts) \in 1..MaxAccounts - 1
    /\ transactions # <<>>
    /\ balance_snapshots = <<>>

\* C19: transactions are append-only: no step of any operation deletes a row
\* of transactions or changes a field of one; the rows only grow in number.
TransactionsAppendOnly ==
    [][/\ Len(transactions') >= Len(transactions)
       /\ \A i \in 1..Len(transactions) : transactions'[i] = transactions[i]]_vars

\* A report has just added a Depreciation row after the rows the ledger held
\* before it.
LedgerGrewByDepreciation ==
    /\ last.op = "utilityReport"
    /\ last.code = OK
    /\ last.ref > 0
    /\ Len(transactions) >= 2
    /\ transactions[Len(transactions)].accrual_type = "Depreciation"
    /\ transactions[1].accrual_type # "Depreciation"

\* The amounts of the first n postings of db for period_ym that belong to one
\* of the schedules.
RECURSIVE PostedAmount(_, _, _, _)
PostedAmount(db, period_ym, schedules, n) ==
    IF n = 0 THEN 0
    ELSE PostedAmount(db, period_ym, schedules, n - 1)
             + (IF /\ db.amortization_postings[n].period_ym = period_ym
                   /\ db.amortization_postings[n].schedule_id \in schedules
                THEN db.amortization_postings[n].amount_cents ELSE 0)

\* C20: when utilityReport(periodYm) succeeds, every schedule that was Active
\* with periodYm inside its range and a positive amount for it has a posting
\* for periodYm, and the report's Depreciation bucket and its total include
\* the amounts of those postings.
ReportIncludesDepreciation ==
    \A period_ym \in PeriodKeys :
        LET r == get_utility_report(DB, period_ym)
            due == DueSchedules(DB, period_ym)
            posted == PostedAmount(r.db, period_ym, due, Len(r.db.amortization_postings))
        IN r.code = OK =>
              /\ \A schedule_id \in due : PostingRows(r.db, schedule_id, period_ym) # {}
              /\ r.report.Depreciation >= posted
              /\ r.report.totalExpenseCents >= posted

\* The times from now on that a later request can arrive at.
Later == clock..MaxClock + RefreshTokenTtl

\* refresh with refresh_token is refused with 401 on the table tokens, now and
\* at every later time, whatever new token is at hand, and writes nothing.
RefreshRefused(tokens, refresh_token) ==
    \A now \in Later, new_token \in RefreshTokenValues :
        LET r == refresh_auth_tokens(tokens, now, refresh_token, new_token)
        IN r.status = 401 /\ r.refreshToken = NULL /\ r.tokens = tokens

\* C21: a successful refresh with token R revokes R and issues a new token
\* different from R, and every later refresh with R fails with 401 and issues
\* nothing.
RefreshRotates ==
    /\ \A refresh_token \in RefreshTokenValues, new_token \in RefreshTokenValues :
          LET r == refresh_auth_tokens(user_refresh_tokens, clock, refresh_token, new_token)
              row == TokenRow(user_refresh_tokens, hash_refresh_token(refresh_token))
          IN r.code = OK =>
                /\ r.refreshToken # refresh_token
                /\ r.tokens[row].revoked_at # NULL
                /\ Len(r.tokens) = Len(user_refresh_tokens) + 1
                /\ r.tokens[Len(r.tokens)].token_hash = hash_refresh_token(r.refreshToken)
                /\ r.tokens[Len(r.tokens)].revoked_at = NULL
                /\ RefreshRefused(r.tokens, refresh_token)
    /\ \A i \in 1..Len(user_refresh_tokens) :
          user_refresh_tokens[i].revoked_at # NULL =>
              RefreshRefused(user_refresh_tokens, user_refresh_tokens[i].token_hash[2])

\* A refresh has just succeeded: the token presented is revoked and the token
\* issued, another one, is in the table and not revoked.
RefreshJustRotated ==
    /\ last.op = "refresh"
    /\ last.code = OK
    /\ last.ref # last.adj
    /\ \E i, j \in 1..Len(user_refresh_tokens) :
          /\ user_refresh_tokens[i].token_hash = hash_refresh_token(last.adj)
          /\ user_refresh_tokens[i].revoked_at # NULL
          /\ user_refresh_tokens[j].token_hash = hash_refresh_token(last.ref)
          /\ user_refresh_tokens[j].revoked_at = NULL

\* C22: after logout(R) has answered ok, every later refresh with R fails with
\* 401; and a revoked refresh token never becomes usable again: no step
\* removes its row or changes it.
LogoutRevokes ==
    /\ [](\A refresh_token \in RefreshTokenValues :
             LET r == logout_refresh_token(user_refresh_tokens, clock, refresh_token)
             IN /\ r.status = 200
                /\ RefreshRefused(r.tokens, refresh_token))
    /\ [][\A i \in 1..Len(user_refresh_tokens) :
             user_refresh_tokens[i].revoked_at # NULL =>
                 /\ Len(user_refresh_tokens') >= i
                 /\ user_refresh_tokens'[i] = user_refresh_tokens[i]]_vars

\* A logout has just revoked the only token of the table, which has not
\* expired, and a time at which it would expire is still ahead.
LoggedOut ==
    /\ last.op = "logout"
    /\ Len(user_refresh_tokens) = 1
    /\ user_refresh_tokens[1].token_hash = hash_refresh_token(last.adj)
    /\ user_refresh_tokens[1].revoked_at = clock
    /\ user_refresh_tokens[1].expires_at > clock

\* The header carries an access token the secret signed that has not expired.
ValidAccessToken(credentials, now) ==
    /\ LowerScheme(credentials.scheme) = "bearer"
    /\ credentials.credentials.signed
    /\ credentials.credentials.exp > now
    /\ credentials.credentials.type = "access"
    /\ credentials.credentials.sub # NULL

\* C23: every core operation (accounts, transactions, asset purchases,
\* reconciliations, reports, KPIs, system init) called without a valid access
\* token is answered 401 and leaves the ledger as it was; login, refresh,
\* logout and healthz are served without one.
CoreRequiresAccessToken ==
    /\ \A credentials \in Credentials(clock), request \in ProtectedRequests :
          LET r == protected_api(DB, clock, credentials, request)
          IN IF ValidAccessToken(credentials, clock)
             THEN r.code = Endpoint(DB, request).code
             ELSE r.status = 401 /\ r.db = DB
    /\ healthz.status = 200
    /\ \A refresh_token \in RefreshTokenValues :
          logout_refresh_token(user_refresh_tokens, clock, refresh_token).status = 200
    /\ \A new_token \in RefreshTokenValues :
          /\ login_user(user_refresh_tokens, clock,
                        [email |-> "admin@oikonomos.local", password |-> "ChangeMe123!"],
                        new_token).code \in {OK, "db_integrity_error"}
          /\ \A i \in 1..Len(user_refresh_tokens) :
                (/\ user_refresh_tokens[i].revoked_at = NULL
                 /\ user_refresh_tokens[i].expires_at > clock) =>
                    refresh_auth_tokens(user_refresh_tokens, clock,
                                        user_refresh_tokens[i].token_hash[2],
                                        new_token).code \in {OK, "db_integrity_error"}

\* A call without a valid access token has just been answered 401 on a ledger
\* that holds an account, where the same request with a valid token would
\* have added another.
RefusedAtTheGate ==
    /\ last.op = "createAccount"
    /\ last.code \in {"auth_unauthorized", "auth_token_expired"}
    /\ Len(accounts) = 1
    /\ user_refresh_tokens # <<>>

\* C24: after a successful reconcile(account, actual) the balance of the
\* account is actual and the systemBalance of the snapshot is the balance the
\* adjustment was applied to, also when another request on the account
\* committed between the read of the balance and the transaction.
ReconcileExactWhenInterleaved ==
    (last.op = "reconcile" /\ last.code = OK) =>
        LET snapshot == balance_snapshots[Len(balance_snapshots)]
            balance == accounts[snapshot.account_id].balance_cents
        IN /\ balance = snapshot.actual_balance_cents
           /\ balance - snapshot.delta_cents = snapshot.system_balance_cents

\* C25: a successful createTransaction of a type other than Depreciation
\* subtracts the amount from fromAccount (if given) and then adds it to
\* toAccount (if given), each step checked by _apply_balance_delta, and
\* changes no other account; one of type Depreciation changes no balance.  A
\* transfer with fromAccount = toAccount leaves the balance as it was and is
\* accepted, also for a Liability account.
TransactionMovesBalances ==
    \A from \in 0..MaxAccounts, to \in 0..MaxAccounts,
       accrual \in {"None", "Flow", "Adjustment", "Depreciation"}, flag \in BOOLEAN :
        LET input == TransactionInput(2, from, to, accrual, flag, "None")
            r == create_transaction(DB, input)
        IN /\ r.code = OK =>
                 /\ Len(r.db.accounts) = Len(accounts)
                 /\ \A a \in 1..Len(accounts) :
                        r.db.accounts[a]
                            = [accounts[a] EXCEPT !.balance_cents =
                                  IF accrual = "Depreciation" THEN @
                                  ELSE Moved(DB, a, from, to, 2)]
                 /\ accrual # "Depreciation" =>
                        /\ from # NULL =>
                               AccountsCheck([accounts[from] EXCEPT !.balance_cents = @ - 2])
                        /\ to # NULL => AccountsCheck(r.db.accounts[to])
           /\ (accrual # "Depreciation" /\ from = to /\ AccountExists(DB, from)) =>
                 r.code = OK /\ r.db.accounts = accounts

\* A transfer from a Liability account to itself has just been accepted and
\* the account stands where it stood when it was created.
SelfTransferAccepted ==
    /\ last.op = "createTransaction"
    /\ last.code = OK
    /\ last.ref = Len(transactions)
    /\ LET row == transactions[Len(transactions)]
       IN /\ row.from_account_id # NULL
          /\ row.from_account_id = row.to_account_id
          /\ accounts[row.from_account_id].type = "Liability"
          /\ accounts[row.from_account_id].balance_cents
                 = initial_balance[row.from_account_id]

\* The amounts of periods 0..total_periods-1, in order.
AmountsOf(strategy, depreciable_cents, total_periods) ==
    [i \in 1..total_periods |->
        calculate_depreciation_amount(strategy, depreciable_cents, total_periods, i - 1)]

\* C26: Linear allocation: for depreciableCents > 0 and totalPeriods > 0 every
\* period but the last receives depreciableCents div totalPeriods and the last
\* receives that base plus depreciableCents mod totalPeriods (1000 over 3
\* periods gives 333, 333, 334); for depreciableCents <= 0, totalPeriods <= 0
\* or a periodIndex outside [0, totalPeriods) the amount is 0.
LinearAllocation ==
    /\ calc.strategy = "Linear" =>
          LET d == calc.depreciable_cents
              n == calc.total_periods
              base == CHOOSE b \in 0..d : b * n <= d /\ d < (b + 1) * n
          IN \A i \in -1..MaxPeriods :
                 calculate_depreciation_amount("Linear", d, n, i)
                     = IF i \in 0..n - 2 THEN base
                       ELSE IF i = n - 1 THEN base + (d - base * n)
                       ELSE 0
    /\ \A d \in {-1, 0}, i \in 0..calc.total_periods - 1 :
          calculate_depreciation_amount("Linear", d, calc.total_periods, i) = 0
    /\ \A n \in {-1, 0}, i \in -1..1 :
          calculate_depreciation_amount("Linear", calc.depreciable_cents, n, i) = 0
    /\ AmountsOf("Linear", 1000, 3) = <<333, 333, 334>>

\* Every period of a Linear schedule that does not divide evenly has been
\* allocated, the last with the remainder.
LinearRemainderAllocated ==
    /\ calc.strategy = "Linear"
    /\ calc.total_periods >= 3
    /\ calc.depreciable_cents % calc.total_periods # 0
    /\ calc.period_index = calc.total_periods
    /\ calc.allocated = calc.depreciable_cents

\* C27: Accelerated allocation: for depreciableCents > 0 and totalPeriods > 0
\* period i < totalPeriods-1 receives depreciableCents * (totalPeriods - i) div
\* (totalPeriods * (totalPeriods + 1) / 2), the last period receives
\* depreciableCents minus the sum of the amounts of the periods before it (600
\* over 3 periods gives 300, 200, 100), and the amount of the last period is
\* above zero.
AcceleratedAllocation ==
    /\ calc.strategy = "Accelerated" =>
          LET d == calc.depreciable_cents
              n == calc.total_periods
              i == calc.period_index
              weight_sum == (n * (n + 1)) \div 2
              amount == calculate_depreciation_amount("Accelerated", d, n, i)
          IN /\ i < n - 1 =>
                    /\ amount * weight_sum <= d * (n - i)
                    /\ d * (n - i) < (amount + 1) * weight_sum
             /\ i = n - 1 => amount = d - calc.allocated /\ amount > 0
    /\ AmountsOf("Accelerated", 600, 3) = <<300, 200, 100>>

\* An Accelerated schedule of several periods stands before its last period,
\* and the periods before it have received less than their exact shares.
AcceleratedBeforeLast ==
    /\ calc.strategy = "Accelerated"
    /\ calc.total_periods >= 3
    /\ calc.period_index = calc.total_periods - 1
    /\ calc.allocated * calc.total_periods * (calc.total_periods + 1)
           < calc.depreciable_cents
                 * (calc.total_periods * (calc.total_periods + 1) - 2)

\* C28: a schedule is created Active; the only change of its status is from
\* Active to Completed, Completed is final, no sequence of operations reaches
\* the status Cancelled, and no other field of a schedule changes after its
\* creation.
ScheduleLifecycle ==
    /\ [](\A i \in 1..Len(amortization_schedules) :
             amortization_schedules[i].status \in {"Active", "Completed"})
    /\ [][/\ Len(amortization_schedules') >= Len(amortization_schedules)
          /\ \A i \in 1..Len(amortization_schedules) :
                \/ amortization_schedules'[i] = amortization_schedules[i]
                \/ /\ amortization_schedules[i].status = "Active"
                   /\ amortization_schedules'[i]
                          = [amortization_schedules[i] EXCEPT !.status = "Completed"]
          /\ \A i \in Len(amortization_schedules) + 1..Len(amortization_schedules') :
                amortization_schedules'[i].status = "Active"]_vars

\* A report has just posted the final period of a schedule, which is
\* Completed now.
ScheduleJustCompleted ==
    /\ last.op = "utilityReport"
    /\ last.code = OK
    /\ last.ref > 0
    /\ \E i \in 1..Len(amortization_schedules) :
          /\ amortization_schedules[i].status = "Completed"
          /\ amortization_postings[Len(amortization_postings)].schedule_id = i

\* C29: every balance snapshot has delta = actualBalance - systemBalance; its
\* adjustment reference is null exactly when delta = 0 and otherwise refers to
\* an Adjustment transaction of amount |delta| on the snapshot's account;
\* no step changes or removes a snapshot, each successful reconcile adds
\* exactly one and no other request adds any.
SnapshotsAreAuditRecords ==
    /\ [](/\ \A i \in 1..Len(balance_snapshots) :
                LET snapshot == balance_snapshots[i]
                IN /\ snapshot.delta_cents
                          = snapshot.actual_balance_cents - snapshot.system_balance_cents
                   /\ snapshot.adjustment_tx_id = NULL <=> snapshot.delta_cents = 0
                   /\ snapshot.adjustment_tx_id # NULL =>
                          /\ snapshot.adjustment_tx_id \in 1..Len(transactions)
                          /\ LET row == transactions[snapshot.adjustment_tx_id]
                             IN /\ row.accrual_type = "Adjustment"
                                /\ row.amount_cents = Abs(snapshot.delta_cents)
                                /\ snapshot.account_id
                                       \in {row.from_account_id, row.to_account_id}
          /\ \A request \in AllRequests :
                LET r == Handle(DB, request)
                IN Len(r.db.balance_snapshots)
                       = Len(balance_snapshots)
                             + (IF request[1] = "reconcile" /\ r.code = OK THEN 1 ELSE 0))
    /\ [][/\ Len(balance_snapshots') >= Len(balance_snapshots)
          /\ \A i \in 1..Len(balance_snapshots) :
                balance_snapshots'[i] = balance_snapshots[i]]_vars

\* A snapshot that refers to its adjustment is still in place after a later
\* request of another kind was served.
SnapshotKept ==
    /\ last.op = "createTransaction"
    /\ last.code = OK
    /\ balance_snapshots # <<>>
    /\ balance_snapshots[1].adjustment_tx_id # NULL
    /\ balance_snapshots[1].adjustment_tx_id < Len(transactions)

\* C30: every amortization posting refers to a transaction of type
\* Depreciation of the posting's amount, which is above zero, dated to the
\* first instant of the posting's period; the index of that period, counted
\* in months from the month the schedule starts in, lies in [0, totalPeriods)
\* and the amount is the depreciation amount of the schedule's strategy for
\* purchase amount - residual, totalPeriods and that index.
PostingsMatchSchedule ==
    \A i \in 1..Len(amortization_postings) :
        LET posting == amortization_postings[i]
            period == parse_period(posting.period_ym)
            schedule == amortization_schedules[posting.schedule_id]
            purchase == transactions[schedule.source_transaction_id]
            index == months_between(schedule.start_date[1], schedule.start_date[2],
                                    period.year, period.month)
        IN /\ posting.transaction_id \in 1..Len(transactions)
           /\ transactions[posting.transaction_id].accrual_type = "Depreciation"
           /\ transactions[posting.transaction_id].amount_cents = posting.amount_cents
           /\ posting.amount_cents > 0
           /\ period.ok
           /\ transactions[posting.transaction_id].occurred_at
                  = <<Digits(period.year, 4), Digits(period.month, 2), "01T00:00:00Z">>
           /\ index \in 0..schedule.total_periods - 1
           /\ posting.amount_cents
                  = calculate_depreciation_amount(
                        schedule.strategy, purchase.amount_cents - schedule.residual_cents,
                        schedule.total_periods, index)

\* The second period of a schedule of two periods is posted.
SecondPeriodPosted ==
    \E i \in 1..Len(amortization_postings) :
        LET schedule == amortization_schedules[amortization_postings[i].schedule_id]
            period == parse_period(amortization_postings[i].period_ym)
        IN /\ schedule.total_periods = 2
           /\ months_between(schedule.start_date[1], schedule.start_date[2],
                             period.year, period.month) = 1

\* C31: in every reachable state a transaction of type Depreciation has
\* neither from_account_id nor to_account_id populated, and a transaction of
\* any other type has at least one of the two populated.
DepreciationHasNoAccounts ==
    \A i \in 1..Len(transactions) :
        IF transactions[i].accrual_type = "Depreciation"
        THEN /\ transactions[i].from_account_id = NULL
             /\ transactions[i].to_account_id = NULL
        ELSE \/ transactions[i].from_account_id # NULL
             \/ transactions[i].to_account_id # NULL

\* The sum of the amounts of the first n postings that belong to the schedule.
RECURSIVE PostedTotal(_, _, _)
PostedTotal(db, schedule_id, n) ==
    IF n = 0 THEN 0
    ELSE PostedTotal(db, schedule_id, n - 1)
             + (IF db.amortization_postings[n].schedule_id = schedule_id
                THEN db.amortization_postings[n].amount_cents ELSE 0)

\* C32: whenever a schedule is Completed, the amounts of its postings sum to
\* its depreciable value (purchase amount - residual), in whatever order the
\* periods were requested, the final period before earlier ones included.
CompletedIsFullyPosted ==
    \A schedule_id \in 1..Len(amortization_schedules) :
        LET schedule == amortization_schedules[schedule_id]
        IN schedule.status = "Completed"
               => PostedTotal(DB, schedule_id, Len(amortization_postings))
                      = transactions[schedule.source_transaction_id].amount_cents
                            - schedule.residual_cents

\* C33: when ensureDepreciationForPeriod succeeds for the calendar month of
\* the final period of an Active schedule, the schedule is Completed when the
\* call returns; this for every schedule createAssetPurchase accepts, one
\* whose residual equals its purchase amount (depreciable value 0) included.
FinalMonthCompletes ==
    \A period_ym \in PeriodKeys :
        LET r == get_utility_report(DB, period_ym)
            period == parse_period(period_ym)
        IN r.code = OK
               => \A schedule_id \in 1..Len(amortization_schedules) :
                      (/\ amortization_schedules[schedule_id].status = "Active"
                       /\ PeriodIndex(DB, schedule_id, period)
                              = amortization_schedules[schedule_id].total_periods - 1)
                          => r.db.amortization_schedules[schedule_id].status = "Completed"

\* The store after the requests utilityReport(first), utilityReport(second).
ReportedTwice(db, first, second) ==
    get_utility_report(get_utility_report(db, first).db, second).db

\* The calendar month a period key parses to.
MonthOf(period_ym) ==
    <<parse_period(period_ym).year, parse_period(period_ym).month>>

\* C34: for each schedule and each calendar month there is at most one
\* posting and at most one Depreciation transaction, whatever spelling of the
\* period key the requests used: '2026-1' followed by '2026-01' does not post
\* the month twice.
OnePostingPerCalendarMonth ==
    \A first \in PeriodKeys, second \in PeriodKeys :
        LET db == ReportedTwice(DB, first, second)
        IN \A i \in 1..Len(db.amortization_postings),
              j \in 1..Len(db.amortization_postings) :
               (/\ db.amortization_postings[i].schedule_id
                       = db.amortization_postings[j].schedule_id
                /\ MonthOf(db.amortization_postings[i].period_ym)
                       = MonthOf(db.amortization_postings[j].period_ym))
                   => /\ i = j
                      /\ db.amortization_postings[i].transaction_id
                             = db.amortization_postings[j].transaction_id

\* The requests that redeemed refresh_token: answered ok to that token.
Redeemed(refresh_token) ==
    {p \in Procs : /\ conns[p].pc = "done"
                   /\ conns[p].code = OK
                   /\ conns[p].input.refreshToken = refresh_token}

\* C35: a refresh token is redeemed at most once, also under concurrency: of
\* two refresh requests that carry the same valid token and are interleaved
\* in any way at most one succeeds, and at most one new refresh token is
\* issued from it.
RefreshRedeemedOnce ==
    \A refresh_token \in RefreshTokenValues :
        /\ Cardinality(Redeemed(refresh_token)) <= 1
        /\ Cardinality({conns[p].input.issued : p \in Redeemed(refresh_token)}) <= 1

\* C36: depreciation never touches balances and reads never write.  A call of
\* ensureDepreciationForPeriod, and so utilityReport, leaves every account
\* and every snapshot as it was: it only appends Depreciation transactions
\* and postings and completes schedules.  listAccounts, listTransactions,
\* cashFlowReport and adjustmentKpi leave the whole store as it was; in
\* particular cashFlowReport materializes no depreciation.
DepreciationAndReadsFrame ==
    /\ [](/\ \A period_ym \in PeriodKeys :
                LET st == ensure_depreciation_for_period(Begin(DB), period_ym)
                    r == get_utility_report(DB, period_ym)
                IN /\ st.db.accounts = accounts
                   /\ st.db.balance_snapshots = balance_snapshots
                   /\ r.db.accounts = accounts
                   /\ r.db.balance_snapshots = balance_snapshots
                   /\ Len(r.db.transactions) >= Len(transactions)
                   /\ \A i \in 1..Len(r.db.transactions) :
                          IF i <= Len(transactions)
                          THEN r.db.transactions[i] = transactions[i]
                          ELSE r.db.transactions[i].accrual_type = "Depreciation"
                   /\ Len(r.db.amortization_postings) - Len(amortization_postings)
                          = Len(r.db.transactions) - Len(transactions)
                   /\ \A i \in 1..Len(amortization_postings) :
                          r.db.amortization_postings[i] = amortization_postings[i]
                   /\ Len(r.db.amortization_schedules) = Len(amortization_schedules)
                   /\ \A i \in 1..Len(amortization_schedules) :
                          r.db.amortization_schedules[i]
                              \in {amortization_schedules[i],
                                   [amortization_schedules[i] EXCEPT !.status = "Completed"]}
          /\ \A request \in ReadRequests : Endpoint(DB, request).db = DB)
    /\ [][last'.op = "utilityReport"
              => /\ accounts' = accounts
                 /\ balance_snapshots' = balance_snapshots]_vars

\* utilityReport has just posted depreciation on a store that holds an
\* account and a snapshot, and the next month of the schedule is still to be
\* posted: a cashFlowReport for it would find depreciation to materialize.
PostedBesideSnapshot ==
    /\ last.op = "utilityReport"
    /\ last.code = OK
    /\ last.ref >= 1
    /\ accounts # <<>>
    /\ balance_snapshots # <<>>
    /\ DueSchedules(DB, MonthKey(2026, 2)) # {}
    /\ get_cash_flow_report(DB, MonthKey(2026, 2)).code = OK

\* C37: in every reachable state every transaction flagged is_asset_purchase
\* is the source transaction of exactly one amortization schedule: no flagged
\* transaction is without a schedule and none is the source of two.
FlaggedHasOneSchedule ==
    \A i \in 1..Len(transactions) :
        transactions[i].is_asset_purchase
            => Cardinality({schedule_id \in 1..Len(amortization_schedules) :
                               amortization_schedules[schedule_id].source_transaction_id = i})
                   = 1

====
